---------------------------- MODULE Spec2Model ----------------------------
(***************************************************************************)
(* Box-score link resolution (server/storage.ts, server/sportsApi.ts).     *)
(*                                                                         *)
(* One call of MemStorage.generateBoxScoreLinks is the state machine: an   *)
(* action is the code between two awaits, the response of every outbound   *)
(* request is chosen by the environment when the request returns.          *)
(*                                                                         *)
(* Text is modelled by what the code does with it: a JavaScript string is  *)
(* the sequence of its characters (one-character strings), so that         *)
(* lower-casing, stripping, splitting and substring tests are computed.    *)
(* The JavaScript value undefined where a string is expected is the        *)
(* constant undefined below, which is no sequence of characters.           *)
(***************************************************************************)
EXTENDS Integers, Sequences, FiniteSets, TLC

\* ------------------------------------------------------------------------
\* JavaScript strings
\* ------------------------------------------------------------------------

UpperChars ==
  <<"A","B","C","D","E","F","G","H","I","J","K","L","M",
    "N","O","P","Q","R","S","T","U","V","W","X","Y","Z">>

LowerChars ==
  <<"a","b","c","d","e","f","g","h","i","j","k","l","m",
    "n","o","p","q","r","s","t","u","v","w","x","y","z">>

DigitChars == {"0","1","2","3","4","5","6","7","8","9"}

\* a field that is missing in a payload
undefined == <<"undefined">>

Range(s) == { s[i] : i \in DOMAIN s }

\* String.prototype.toLowerCase and toUpperCase, per character
lowerOf ==
  [c \in Range(UpperChars) |-> LowerChars[CHOOSE i \in DOMAIN UpperChars : UpperChars[i] = c]]

upperOf ==
  [c \in Range(LowerChars) |-> UpperChars[CHOOSE i \in DOMAIN LowerChars : LowerChars[i] = c]]

toLowerChar(c) == IF c \in DOMAIN lowerOf THEN lowerOf[c] ELSE c

toUpperChar(c) == IF c \in DOMAIN upperOf THEN upperOf[c] ELSE c

toLowerCase(s) == [i \in 1..Len(s) |-> toLowerChar(s[i])]

toUpperCase(s) == [i \in 1..Len(s) |-> toUpperChar(s[i])]

\* the character class [a-z0-9]
LowerAlnumChars == Range(LowerChars) \cup DigitChars

IsLowerAlnum(c) == c \in LowerAlnumChars

\* the character class \s, for the white space the model's names contain
IsSpace(c) == c = " "

\* String.prototype.includes
includes(s, t) ==
  \E i \in 0..(Len(s) - Len(t)) : SubSeq(s, i + 1, i + Len(t)) = t

\* String.prototype.startsWith
startsWith(s, t) == Len(t) <= Len(s) /\ SubSeq(s, 1, Len(t)) = t

\* String.prototype.split(sep) for a one-character separator
RECURSIVE split(_, _)
split(s, sep) ==
  IF \A i \in DOMAIN s : s[i] # sep
    THEN <<s>>
    ELSE LET k == CHOOSE i \in DOMAIN s :
                    s[i] = sep /\ \A j \in 1..(i - 1) : s[j] # sep
         IN  <<SubSeq(s, 1, k - 1)>> \o split(SubSeq(s, k + 1, Len(s)), sep)

\* Array.prototype.join(sep)
RECURSIVE join(_, _)
join(parts, sep) ==
  IF Len(parts) = 0 THEN <<>>
  ELSE IF Len(parts) = 1 THEN parts[1]
  ELSE parts[1] \o sep \o join(Tail(parts), sep)

\* Array.prototype.slice(-2)
sliceLastTwo(parts) ==
  IF Len(parts) <= 2 THEN parts ELSE SubSeq(parts, Len(parts) - 1, Len(parts))

\* String.prototype.trim
RECURSIVE trim(_)
trim(s) ==
  IF Len(s) = 0 THEN s
  ELSE IF IsSpace(s[1]) THEN trim(Tail(s))
  ELSE IF IsSpace(s[Len(s)]) THEN trim(SubSeq(s, 1, Len(s) - 1))
  ELSE s

\* ------------------------------------------------------------------------
\* Static tables
\* ------------------------------------------------------------------------

\* part_002:18
nbaTeams ==
  { <<"l","a","k","e","r","s">>, <<"w","a","r","r","i","o","r","s">>, <<"c","e","l","t","i","c","s">>,
    <<"h","e","a","t">>, <<"b","u","l","l","s">>, <<"k","n","i","c","k","s">>,
    <<"n","e","t","s">>, <<"7","6","e","r","s">>, <<"s","u","n","s">>,
    <<"m","a","v","e","r","i","c","k","s">>, <<"b","u","c","k","s">>, <<"c","l","i","p","p","e","r","s">>,
    <<"n","u","g","g","e","t","s">>, <<"g","r","i","z","z","l","i","e","s">>, <<"p","e","l","i","c","a","n","s">>,
    <<"h","a","w","k","s">>, <<"h","o","r","n","e","t","s">>, <<"m","a","g","i","c">>,
    <<"p","i","s","t","o","n","s">>, <<"p","a","c","e","r","s">>, <<"c","a","v","a","l","i","e","r","s">>,
    <<"r","a","p","t","o","r","s">>, <<"w","i","z","a","r","d","s">>, <<"t","i","m","b","e","r","w","o","l","v","e","s">>,
    <<"t","h","u","n","d","e","r">>, <<"b","l","a","z","e","r","s">>, <<"j","a","z","z">>,
    <<"k","i","n","g","s">>, <<"s","p","u","r","s">>, <<"r","o","c","k","e","t","s">> }

\* part_002:22
mlbTeams ==
  { <<"y","a","n","k","e","e","s">>, <<"d","o","d","g","e","r","s">>, <<"r","e","d"," ","s","o","x">>,
    <<"c","u","b","s">>, <<"g","i","a","n","t","s">>, <<"a","s","t","r","o","s">>,
    <<"b","r","a","v","e","s">>, <<"p","h","i","l","l","i","e","s">>, <<"m","e","t","s">>,
    <<"c","a","r","d","i","n","a","l","s">>, <<"p","a","d","r","e","s">>, <<"m","a","r","i","n","e","r","s">>,
    <<"r","a","n","g","e","r","s">>, <<"t","w","i","n","s">>, <<"g","u","a","r","d","i","a","n","s">>,
    <<"o","r","i","o","l","e","s">>, <<"r","a","y","s">>, <<"b","l","u","e"," ","j","a","y","s">>,
    <<"w","h","i","t","e"," ","s","o","x">>, <<"r","o","y","a","l","s">>, <<"t","i","g","e","r","s">>,
    <<"a","n","g","e","l","s">>, <<"a","t","h","l","e","t","i","c","s">>, <<"b","r","e","w","e","r","s">>,
    <<"r","e","d","s">>, <<"p","i","r","a","t","e","s">>, <<"r","o","c","k","i","e","s">>,
    <<"d","i","a","m","o","n","d","b","a","c","k","s">>, <<"n","a","t","i","o","n","a","l","s">>, <<"m","a","r","l","i","n","s">> }

\* part_002:26
nflTeams ==
  { <<"c","o","w","b","o","y","s">>, <<"p","a","t","r","i","o","t","s">>, <<"p","a","c","k","e","r","s">>,
    <<"c","h","i","e","f","s">>, <<"4","9","e","r","s">>, <<"e","a","g","l","e","s">>,
    <<"b","i","l","l","s">>, <<"d","o","l","p","h","i","n","s">>, <<"j","e","t","s">>,
    <<"r","a","v","e","n","s">>, <<"s","t","e","e","l","e","r","s">>, <<"b","e","n","g","a","l","s">>,
    <<"b","r","o","w","n","s">>, <<"t","i","t","a","n","s">>, <<"c","o","l","t","s">>,
    <<"t","e","x","a","n","s">>, <<"j","a","g","u","a","r","s">>, <<"b","r","o","n","c","o","s">>,
    <<"r","a","i","d","e","r","s">>, <<"c","h","a","r","g","e","r","s">>, <<"s","e","a","h","a","w","k","s">>,
    <<"r","a","m","s">>, <<"c","a","r","d","i","n","a","l","s">>, <<"f","a","l","c","o","n","s">>,
    <<"p","a","n","t","h","e","r","s">>, <<"s","a","i","n","t","s">>, <<"b","u","c","c","a","n","e","e","r","s">>,
    <<"b","e","a","r","s">>, <<"l","i","o","n","s">>, <<"v","i","k","i","n","g","s">>,
    <<"c","o","m","m","a","n","d","e","r","s">> }

\* part_002:30
nhlTeams ==
  { <<"m","a","p","l","e"," ","l","e","a","f","s">>, <<"c","a","n","a","d","i","e","n","s">>, <<"b","r","u","i","n","s">>,
    <<"r","a","n","g","e","r","s">>, <<"b","l","a","c","k","h","a","w","k","s">>, <<"p","e","n","g","u","i","n","s">>,
    <<"g","o","l","d","e","n"," ","k","n","i","g","h","t","s">>, <<"a","v","a","l","a","n","c","h","e">>, <<"o","i","l","e","r","s">>,
    <<"f","l","a","m","e","s">>, <<"c","a","n","u","c","k","s">>, <<"k","r","a","k","e","n">>,
    <<"k","i","n","g","s">>, <<"s","h","a","r","k","s">>, <<"d","u","c","k","s">>,
    <<"c","o","y","o","t","e","s">>, <<"s","t","a","r","s">>, <<"b","l","u","e","s">>,
    <<"w","i","l","d">>, <<"p","r","e","d","a","t","o","r","s">>, <<"j","e","t","s">>,
    <<"l","i","g","h","t","n","i","n","g">>, <<"p","a","n","t","h","e","r","s">>, <<"h","u","r","r","i","c","a","n","e","s">>,
    <<"c","a","p","i","t","a","l","s">>, <<"f","l","y","e","r","s">>, <<"d","e","v","i","l","s">>,
    <<"i","s","l","a","n","d","e","r","s">>, <<"s","a","b","r","e","s">>, <<"s","e","n","a","t","o","r","s">>,
    <<"r","e","d"," ","w","i","n","g","s">>, <<"b","l","u","e"," ","j","a","c","k","e","t","s">> }

\* part_002:34
mlsTeams ==
  { <<"g","a","l","a","x","y">>, <<"i","n","t","e","r"," ","m","i","a","m","i">>, <<"a","t","l","a","n","t","a"," ","u","n","i","t","e","d">>,
    <<"s","o","u","n","d","e","r","s">>, <<"l","a","f","c">>, <<"t","i","m","b","e","r","s">>,
    <<"w","h","i","t","e","c","a","p","s">>, <<"e","a","r","t","h","q","u","a","k","e","s">>, <<"f","c"," ","d","a","l","l","a","s">>,
    <<"d","y","n","a","m","o">>, <<"s","p","o","r","t","i","n","g"," ","k","c">>, <<"m","i","n","n","e","s","o","t","a"," ","u","n","i","t","e","d">>,
    <<"r","e","a","l"," ","s","a","l","t"," ","l","a","k","e">>, <<"c","o","l","o","r","a","d","o"," ","r","a","p","i","d","s">>, <<"a","u","s","t","i","n"," ","f","c">>,
    <<"n","a","s","h","v","i","l","l","e"," ","s","c">>, <<"c","h","a","r","l","o","t","t","e"," ","f","c">>, <<"d","c"," ","u","n","i","t","e","d">>,
    <<"n","e","w"," ","y","o","r","k"," ","r","e","d"," ","b","u","l","l","s">>, <<"n","y","c","f","c">>, <<"n","e","w"," ","e","n","g","l","a","n","d"," ","r","e","v","o","l","u","t","i","o","n">>,
    <<"p","h","i","l","a","d","e","l","p","h","i","a"," ","u","n","i","o","n">>, <<"c","o","l","u","m","b","u","s"," ","c","r","e","w">>, <<"c","h","i","c","a","g","o"," ","f","i","r","e">>,
    <<"c","f"," ","m","o","n","t","r","e","a","l">>, <<"t","o","r","o","n","t","o"," ","f","c">>, <<"o","r","l","a","n","d","o"," ","c","i","t","y">>,
    <<"c","i","n","c","i","n","n","a","t","i">> }

\* sportsApi.ts:84
twoWordTeams ==
  { <<"t","r","a","i","l"," ","b","l","a","z","e","r","s">>, <<"b","l","u","e"," ","j","a","y","s">>, <<"r","e","d"," ","s","o","x">>,
    <<"w","h","i","t","e"," ","s","o","x">>, <<"m","a","p","l","e"," ","l","e","a","f","s">>, <<"g","o","l","d","e","n"," ","k","n","i","g","h","t","s">> }

\* sportsApi.ts:4-13, as the set of <<key, value>> entries
ESPN_TO_NBA_ABBR ==
  { <<<<"N","O">>, <<"N","O","P">>>>,
    <<<<"N","Y">>, <<"N","Y","K">>>>,
    <<<<"G","S">>, <<"G","S","W">>>>,
    <<<<"S","A">>, <<"S","A","S">>>>,
    <<<<"U","T","A","H">>, <<"U","T","A">>>>,
    <<<<"P","H","X">>, <<"P","H","O">>>>,
    <<<<"B","K","N">>, <<"B","K","N">>>>,
    <<<<"W","S","H">>, <<"W","A","S">>>> }

\* sportsApi.ts:16-26, as the set of <<key, value>> entries
NBA_TEAM_ABBR ==
  { <<<<"A","T","L">>, <<"a","t","l">>>>,
    <<<<"B","O","S">>, <<"b","o","s">>>>,
    <<<<"B","K","N">>, <<"b","k","n">>>>,
    <<<<"C","H","A">>, <<"c","h","a">>>>,
    <<<<"C","H","I">>, <<"c","h","i">>>>,
    <<<<"C","L","E">>, <<"c","l","e">>>>,
    <<<<"D","A","L">>, <<"d","a","l">>>>,
    <<<<"D","E","N">>, <<"d","e","n">>>>,
    <<<<"D","E","T">>, <<"d","e","t">>>>,
    <<<<"G","S","W">>, <<"g","s","w">>>>,
    <<<<"H","O","U">>, <<"h","o","u">>>>,
    <<<<"I","N","D">>, <<"i","n","d">>>>,
    <<<<"L","A","C">>, <<"l","a","c">>>>,
    <<<<"L","A","L">>, <<"l","a","l">>>>,
    <<<<"M","E","M">>, <<"m","e","m">>>>,
    <<<<"M","I","A">>, <<"m","i","a">>>>,
    <<<<"M","I","L">>, <<"m","i","l">>>>,
    <<<<"M","I","N">>, <<"m","i","n">>>>,
    <<<<"N","O","P">>, <<"n","o","p">>>>,
    <<<<"N","Y","K">>, <<"n","y","k">>>>,
    <<<<"O","K","C">>, <<"o","k","c">>>>,
    <<<<"O","R","L">>, <<"o","r","l">>>>,
    <<<<"P","H","I">>, <<"p","h","i">>>>,
    <<<<"P","H","X">>, <<"p","h","x">>>>,
    <<<<"P","O","R">>, <<"p","o","r">>>>,
    <<<<"S","A","C">>, <<"s","a","c">>>>,
    <<<<"S","A","S">>, <<"s","a","s">>>>,
    <<<<"T","O","R">>, <<"t","o","r">>>>,
    <<<<"U","T","A">>, <<"u","t","a">>>>,
    <<<<"W","A","S">>, <<"w","a","s">>>>,
    <<<<"N","O">>, <<"n","o","p">>>>,
    <<<<"N","Y">>, <<"n","y","k">>>>,
    <<<<"G","S">>, <<"g","s","w">>>>,
    <<<<"S","A">>, <<"s","a","s">>>>,
    <<<<"U","T","A","H">>, <<"u","t","a">>>>,
    <<<<"P","H","O">>, <<"p","h","x">>>>,
    <<<<"W","S","H">>, <<"w","a","s">>>> }

\* sportsApi.ts:315, the alternatives of the city pattern in the pattern's order
cityPatterns ==
  << <<"L","o","s"," ","A","n","g","e","l","e","s">>,
     <<"N","e","w"," ","Y","o","r","k">>,
     <<"S","a","n"," ","F","r","a","n","c","i","s","c","o">>,
     <<"S","a","n"," ","D","i","e","g","o">>,
     <<"S","t","."," ","L","o","u","i","s">>,
     <<"K","a","n","s","a","s"," ","C","i","t","y">>,
     <<"T","a","m","p","a"," ","B","a","y">>,
     <<"T","e","x","a","s">>,
     <<"A","r","i","z","o","n","a">>,
     <<"C","o","l","o","r","a","d","o">>,
     <<"M","i","n","n","e","s","o","t","a">>,
     <<"O","a","k","l","a","n","d">>,
     <<"S","e","a","t","t","l","e">>,
     <<"B","a","l","t","i","m","o","r","e">>,
     <<"B","o","s","t","o","n">>,
     <<"C","h","i","c","a","g","o">>,
     <<"C","i","n","c","i","n","n","a","t","i">>,
     <<"C","l","e","v","e","l","a","n","d">>,
     <<"D","e","t","r","o","i","t">>,
     <<"H","o","u","s","t","o","n">>,
     <<"M","i","a","m","i">>,
     <<"M","i","l","w","a","u","k","e","e">>,
     <<"P","h","i","l","a","d","e","l","p","h","i","a">>,
     <<"P","i","t","t","s","b","u","r","g","h">>,
     <<"T","o","r","o","n","t","o">>,
     <<"W","a","s","h","i","n","g","t","o","n">>,
     <<"A","t","l","a","n","t","a">> >>
\* the string literals of storage.ts and sportsApi.ts
s_nba == <<"n","b","a">>
s_mlb == <<"m","l","b">>
s_nfl == <<"n","f","l">>
s_nhl == <<"n","h","l">>
s_mls == <<"m","l","s">>
s_NBA_upper == <<"N","B","A">>
s_MLB_upper == <<"M","L","B">>
\* the provider names of the links
providerNames ==
  [ESPN_Match_Stats |-> <<"E","S","P","N"," ","M","a","t","c","h"," ","S","t","a","t","s">>,
   ESPN_Match_Summary |-> <<"E","S","P","N"," ","M","a","t","c","h"," ","S","u","m","m","a","r","y">>,
   ESPN_Box_Score |-> <<"E","S","P","N"," ","B","o","x"," ","S","c","o","r","e">>,
   ESPN_Game_Summary |-> <<"E","S","P","N"," ","G","a","m","e"," ","S","u","m","m","a","r","y">>,
   ESPN_Play_by_Play |-> <<"E","S","P","N"," ","P","l","a","y","-","b","y","-","P","l","a","y">>,
   NBA_com |-> <<"N","B","A",".","c","o","m">>,
   MLB_com |-> <<"M","L","B",".","c","o","m">>,
   Basketball_Reference |-> <<"B","a","s","k","e","t","b","a","l","l"," ","R","e","f","e","r","e","n","c","e">>,
   Baseball_Reference |-> <<"B","a","s","e","b","a","l","l"," ","R","e","f","e","r","e","n","c","e">>,
   SofaScore |-> <<"S","o","f","a","S","c","o","r","e">>,
   ESPN_Search |-> <<"E","S","P","N"," ","(","S","e","a","r","c","h",")">>,
   Google_Search |-> <<"G","o","o","g","l","e"," ","S","e","a","r","c","h">>]

\* the ids of the links built by storage.ts
linkIds ==
  [nba_com_boxscore |-> <<"n","b","a","-","c","o","m","-","b","o","x","s","c","o","r","e">>,
   nba_com_schedule |-> <<"n","b","a","-","c","o","m","-","s","c","h","e","d","u","l","e">>,
   bbref_boxscore |-> <<"b","b","r","e","f","-","b","o","x","s","c","o","r","e">>,
   mlb_com_boxscore |-> <<"m","l","b","-","c","o","m","-","b","o","x","s","c","o","r","e">>,
   bref_boxscore |-> <<"b","r","e","f","-","b","o","x","s","c","o","r","e">>,
   sofascore_search |-> <<"s","o","f","a","s","c","o","r","e","-","s","e","a","r","c","h">>,
   google_search |-> <<"g","o","o","g","l","e","-","s","e","a","r","c","h">>]

\* en-US month and weekday names (Intl, toLocaleDateString)
monthLong ==
  << <<"J","a","n","u","a","r","y">>,
     <<"F","e","b","r","u","a","r","y">>,
     <<"M","a","r","c","h">>,
     <<"A","p","r","i","l">>,
     <<"M","a","y">>,
     <<"J","u","n","e">>,
     <<"J","u","l","y">>,
     <<"A","u","g","u","s","t">>,
     <<"S","e","p","t","e","m","b","e","r">>,
     <<"O","c","t","o","b","e","r">>,
     <<"N","o","v","e","m","b","e","r">>,
     <<"D","e","c","e","m","b","e","r">> >>

weekdayLong ==
  << <<"S","u","n","d","a","y">>,
     <<"M","o","n","d","a","y">>,
     <<"T","u","e","s","d","a","y">>,
     <<"W","e","d","n","e","s","d","a","y">>,
     <<"T","h","u","r","s","d","a","y">>,
     <<"F","r","i","d","a","y">>,
     <<"S","a","t","u","r","d","a","y">> >>
\* sample values of the data the program handles: team names and
\* abbreviations, game ids, dates, a player name
sample ==
  [t_Los_Angeles_Lakers |-> <<"L","o","s"," ","A","n","g","e","l","e","s"," ","L","a","k","e","r","s">>,
   t_LAL |-> <<"L","A","L">>,
   t_Boston_Celtics |-> <<"B","o","s","t","o","n"," ","C","e","l","t","i","c","s">>,
   t_BOS |-> <<"B","O","S">>,
   t_New_York_Knicks |-> <<"N","e","w"," ","Y","o","r","k"," ","K","n","i","c","k","s">>,
   t_NY |-> <<"N","Y">>,
   t_Golden_State_Warriors |-> <<"G","o","l","d","e","n"," ","S","t","a","t","e"," ","W","a","r","r","i","o","r","s">>,
   t_GS |-> <<"G","S">>,
   t_New_York_Yankees |-> <<"N","e","w"," ","Y","o","r","k"," ","Y","a","n","k","e","e","s">>,
   t_NYY |-> <<"N","Y","Y">>,
   t_Boston_Red_Sox |-> <<"B","o","s","t","o","n"," ","R","e","d"," ","S","o","x">>,
   t_Texas_Rangers |-> <<"T","e","x","a","s"," ","R","a","n","g","e","r","s">>,
   t_TEX |-> <<"T","E","X">>,
   t_Toronto_Blue_Jays |-> <<"T","o","r","o","n","t","o"," ","B","l","u","e"," ","J","a","y","s">>,
   t_TOR |-> <<"T","O","R">>,
   t_Baltimore_Orioles |-> <<"B","a","l","t","i","m","o","r","e"," ","O","r","i","o","l","e","s">>,
   t_Dallas_Cowboys |-> <<"D","a","l","l","a","s"," ","C","o","w","b","o","y","s">>,
   t_DAL |-> <<"D","A","L">>,
   t_Arizona_Cardinals |-> <<"A","r","i","z","o","n","a"," ","C","a","r","d","i","n","a","l","s">>,
   t_ARI |-> <<"A","R","I">>,
   t_New_York_Rangers |-> <<"N","e","w"," ","Y","o","r","k"," ","R","a","n","g","e","r","s">>,
   t_NYR |-> <<"N","Y","R">>,
   t_Los_Angeles_Kings |-> <<"L","o","s"," ","A","n","g","e","l","e","s"," ","K","i","n","g","s">>,
   t_LA |-> <<"L","A">>,
   t_Inter_Miami_CF |-> <<"I","n","t","e","r"," ","M","i","a","m","i"," ","C","F">>,
   t_MIA |-> <<"M","I","A">>,
   t_LA_Galaxy |-> <<"L","A"," ","G","a","l","a","x","y">>,
   t_Lakers |-> <<"L","a","k","e","r","s">>,
   t_Rangers |-> <<"R","a","n","g","e","r","s">>,
   t_Inter_Miami |-> <<"I","n","t","e","r"," ","M","i","a","m","i">>,
   t_Nobody |-> <<"N","o","b","o","d","y">>,
   t_LeBron_James |-> <<"L","e","B","r","o","n"," ","J","a","m","e","s">>,
   t_NYK |-> <<"N","Y","K">>,
   t_GSW |-> <<"G","S","W">>,
   n_2024_01_15 |-> <<"2","0","2","4","-","0","1","-","1","5">>,
   n_2024_01_15T00_30_00Z |-> <<"2","0","2","4","-","0","1","-","1","5","T","0","0",":","3","0",":","0","0","Z">>,
   n_2024_01_14T23_00_00Z |-> <<"2","0","2","4","-","0","1","-","1","4","T","2","3",":","0","0",":","0","0","Z">>,
   n_401 |-> <<"4","0","1">>,
   n_402 |-> <<"4","0","2">>,
   n_403 |-> <<"4","0","3">>,
   n_404 |-> <<"4","0","4">>,
   n_501 |-> <<"5","0","1">>,
   n_502 |-> <<"5","0","2">>,
   n_601 |-> <<"6","0","1">>,
   n_701 |-> <<"7","0","1">>,
   n_801 |-> <<"8","0","1">>,
   n_0022300567 |-> <<"0","0","2","2","3","0","0","5","6","7">>,
   n_0022300568 |-> <<"0","0","2","2","3","0","0","5","6","8">>,
   n_0022300569 |-> <<"0","0","2","2","3","0","0","5","6","9">>,
   n_745804 |-> <<"7","4","5","8","0","4">>,
   n_745805 |-> <<"7","4","5","8","0","5">>,
   n_745806 |-> <<"7","4","5","8","0","6">>,
   n_20240115 |-> <<"2", "0", "2", "4", "0", "1", "1", "5">>,
   t_Planets |-> <<"P","l","a","n","e","t","s">>,
   t_Jets |-> <<"J","e","t","s">>,
   t_New_York |-> <<"N","e","w"," ","Y","o","r","k">>]


\* the keys of ESPN_SCOREBOARD_URLS
ESPN_SCOREBOARD_URLS == { s_nba, s_mlb, s_nfl, s_nhl, s_mls }

\* record lookup table[key]; <<>> when the key is absent (undefined)
lookup(table, key) ==
  IF \E p \in table : p[1] = key
    THEN <<(CHOOSE p \in table : p[1] = key)[2]>>
    ELSE <<>>

\* ------------------------------------------------------------------------
\* Name normalizer and matcher (sportsApi.ts)
\* ------------------------------------------------------------------------

normalizeTeamName(name) == SelectSeq(toLowerCase(name), IsLowerAlnum)

getTeamNickname(displayName) ==
  LET parts   == split(displayName, " ")
      lastTwo == toLowerCase(join(sliceLastTwo(parts), <<" ">>))
      last    == parts[Len(parts)]
  IN  IF lastTwo \in twoWordTeams
        THEN normalizeTeamName(lastTwo)
        ELSE normalizeTeamName(IF last # <<>> THEN last ELSE displayName)

\* teamMatches raises a TypeError when an argument is not a string: all four
\* normalizations run before the first comparison
teamMatchesThrows(searchTeam, teamName, teamAbbr, displayName) ==
  undefined \in {searchTeam, teamName, teamAbbr, displayName}

teamMatches(searchTeam, teamName, teamAbbr, displayName) ==
  LET search                == normalizeTeamName(searchTeam)
      normalizedTeamName    == normalizeTeamName(teamName)
      normalizedDisplayName == normalizeTeamName(displayName)
      normalizedAbbr        == normalizeTeamName(teamAbbr)
      nickname              == getTeamNickname(displayName)
  IN  \/ normalizedAbbr = search
      \/ search = nickname
      \/ normalizedDisplayName = search \/ normalizedTeamName = search
      \/ includes(search, normalizedDisplayName) \/ includes(search, normalizedTeamName)
      \/ Len(search) >= 4 /\ includes(normalizedDisplayName, search)
      \/ Len(nickname) >= 4 /\ includes(search, nickname)

\* ------------------------------------------------------------------------
\* League classifier (storage.ts)
\* ------------------------------------------------------------------------

\* a detectLeague whose default list has every configured league
detectLeague_defaultAll(teamName) ==
  LET teamLower == toLowerCase(teamName)
      some(teams) == \E t \in teams : includes(teamLower, t)
      leagues ==
           (IF some(nbaTeams) THEN <<s_nba>> ELSE <<>>)
        \o (IF some(mlbTeams) THEN <<s_mlb>> ELSE <<>>)
        \o (IF some(nflTeams) THEN <<s_nfl>> ELSE <<>>)
        \o (IF some(nhlTeams) THEN <<s_nhl>> ELSE <<>>)
        \o (IF some(mlsTeams) THEN <<s_mls>> ELSE <<>>)
  IN  IF Len(leagues) = 0 THEN <<s_nba, s_mlb, s_nfl, s_nhl, s_mls>> ELSE leagues

detectLeague(teamName) ==
  LET teamLower == toLowerCase(teamName)
      some(teams) == \E t \in teams : includes(teamLower, t)
      leagues ==
           (IF some(nbaTeams) THEN <<s_nba>> ELSE <<>>)
        \o (IF some(mlbTeams) THEN <<s_mlb>> ELSE <<>>)
        \o (IF some(nflTeams) THEN <<s_nfl>> ELSE <<>>)
        \o (IF some(nhlTeams) THEN <<s_nhl>> ELSE <<>>)
        \o (IF some(mlsTeams) THEN <<s_mls>> ELSE <<>>)
  IN  IF Len(leagues) = 0 THEN <<s_nba, s_mlb, s_nfl, s_nhl>> ELSE leagues

\* ------------------------------------------------------------------------
\* Scoreboard client (sportsApi.ts)
\* ------------------------------------------------------------------------

\* An HTTP exchange as the code sees it:
\*   net  = "reject"  fetch() rejects (network error)
\*   ok               response.ok
\*   json = "reject"  response.json() rejects (the body is no JSON)
\*          "null"    the body is the JSON value null
\*          "object"  the body is an object; items are the entries of the
\*                    list the code reads from it, hasItems tells whether the
\*                    property holding the list is there at all
Response(net, ok, json, hasItems, items) ==
  [net |-> net, ok |-> ok, json |-> json, hasItems |-> hasItems, items |-> items]

\* the answers without a list: the fetch rejects, the status is not ok, the
\* body is no JSON, the body is null, the body is an object without the list
Failures ==
  LET NetworkError == Response("reject", FALSE, "reject", FALSE, <<>>)
      HttpError    == Response("ok", FALSE, "object", FALSE, <<>>)
      InvalidJson  == Response("ok", TRUE, "reject", FALSE, <<>>)
      NullBody     == Response("ok", TRUE, "null", FALSE, <<>>)
      NoItems      == Response("ok", TRUE, "object", FALSE, <<>>)
  IN  { NetworkError, HttpError, InvalidJson, NullBody, NoItems }

Payload(items) == Response("ok", TRUE, "object", TRUE, items)

\* ESPNGame.competitions[i].competitors[j]; hasTeam = FALSE: no team object
Competitor(homeAway, hasTeam, displayName, abbreviation) ==
  [homeAway |-> homeAway, hasTeam |-> hasTeam,
   displayName |-> displayName, abbreviation |-> abbreviation]

\* ESPNGame; hasCompetitions = FALSE: no competitions property or an empty
\* list, hasCompetitors = FALSE: the first competition has no competitors
Event(id, hasCompetitions, hasCompetitors, competitors) ==
  [id |-> id, hasCompetitions |-> hasCompetitions,
   hasCompetitors |-> hasCompetitors, competitors |-> competitors]

\* Array.prototype.find(c => c.homeAway === tag): <<>> is undefined
find(competitors, tag) ==
  IF \E i \in DOMAIN competitors : competitors[i].homeAway = tag
    THEN <<competitors[CHOOSE i \in DOMAIN competitors :
              /\ competitors[i].homeAway = tag
              /\ \A j \in 1..(i - 1) : competitors[j].homeAway # tag]>>
    ELSE <<>>

\* the condition under which the loop body reaches games.push for an event
eventReachesPush(event) ==
  /\ event.hasCompetitions
  /\ event.hasCompetitors
  /\ Len(event.competitors) >= 2
  /\ find(event.competitors, "home") # <<>>
  /\ find(event.competitors, "away") # <<>>

\* homeTeam.team.displayName raises a TypeError when team is undefined
eventThrows(event) ==
  /\ eventReachesPush(event)
  /\ \/ ~find(event.competitors, "home")[1].hasTeam
     \/ ~find(event.competitors, "away")[1].hasTeam

\* a GameInfo that keeps the league id as it was requested
GameInfo_leagueAsRequested(event, league, date) ==
  LET homeTeam == find(event.competitors, "home")[1]
      awayTeam == find(event.competitors, "away")[1]
  IN  [espnGameId   |-> event.id,
       homeTeam     |-> homeTeam.displayName,
       awayTeam     |-> awayTeam.displayName,
       homeTeamAbbr |-> homeTeam.abbreviation,
       awayTeamAbbr |-> awayTeam.abbreviation,
       gameDate     |-> date,
       league       |-> league]

GameInfo(event, league, date) ==
  LET homeTeam == find(event.competitors, "home")[1]
      awayTeam == find(event.competitors, "away")[1]
  IN  [espnGameId   |-> event.id,
       homeTeam     |-> homeTeam.displayName,
       awayTeam     |-> awayTeam.displayName,
       homeTeamAbbr |-> homeTeam.abbreviation,
       awayTeamAbbr |-> awayTeam.abbreviation,
       gameDate     |-> date,
       league       |-> toUpperCase(league)]

RECURSIVE gamesOf(_, _, _)
gamesOf(events, league, date) ==
  IF events = <<>> THEN <<>>
  ELSE (IF eventReachesPush(Head(events))
          THEN <<GameInfo(Head(events), league, date)>> ELSE <<>>)
       \o gamesOf(Tail(events), league, date)

\* does fetchGamesByDate issue its request: only for a configured league
fetchGamesByDateRequests(league) == league \in ESPN_SCOREBOARD_URLS

\* the try block of fetchGamesByDate when the scoreboard request gets the
\* response resp: it returns the games, or an exception leaves it (a rejected
\* fetch or json(), a property read on null or undefined)
fetchGamesByDateTry(league, date, resp) ==
  IF resp.net = "reject" THEN [out |-> "throw", games |-> <<>>]
  ELSE IF ~resp.ok THEN [out |-> "return", games |-> <<>>]
  ELSE IF resp.json = "reject" \/ resp.json = "null" THEN [out |-> "throw", games |-> <<>>]
  ELSE IF ~resp.hasItems \/ Len(resp.items) = 0 THEN [out |-> "return", games |-> <<>>]
  ELSE IF \E i \in DOMAIN resp.items : eventThrows(resp.items[i])
    THEN [out |-> "throw", games |-> <<>>]
  ELSE [out |-> "return", games |-> gamesOf(resp.items, league, date)]

\* fetchGamesByDate(league, date): how the call ends ("return" or "throw")
\* and the games it returns; the catch turns every exception of the try
\* block into []
fetchGamesByDate(league, date, resp) ==
  IF ~fetchGamesByDateRequests(league) THEN [out |-> "return", games |-> <<>>]
  ELSE LET body == fetchGamesByDateTry(league, date, resp)
       IN  IF body.out = "throw" THEN [out |-> "return", games |-> <<>>] ELSE body

\* ------------------------------------------------------------------------
\* Game resolver (sportsApi.ts)
\* ------------------------------------------------------------------------

\* the condition of findGame for one game: "throw", "true" or "false"; the
\* away side is only evaluated when the home side is false
gameMatch(teamName, game) ==
  IF teamMatchesThrows(teamName, game.homeTeam, game.homeTeamAbbr, game.homeTeam)
    THEN "throw"
  ELSE IF teamMatches(teamName, game.homeTeam, game.homeTeamAbbr, game.homeTeam)
    THEN "true"
  ELSE IF teamMatchesThrows(teamName, game.awayTeam, game.awayTeamAbbr, game.awayTeam)
    THEN "throw"
  ELSE IF teamMatches(teamName, game.awayTeam, game.awayTeamAbbr, game.awayTeam)
    THEN "true"
  ELSE "false"

\* a findGame that keeps the last matching game of a league's list
RECURSIVE scanGames_lastMatch(_, _)
scanGames_lastMatch(teamName, games) ==
  IF games = <<>> THEN [out |-> "next", game |-> <<>>]
  ELSE LET m    == gameMatch(teamName, Head(games))
           rest == scanGames_lastMatch(teamName, Tail(games))
       IN  IF m = "throw" THEN [out |-> "throw", game |-> <<>>]
           ELSE IF rest.out # "next" THEN rest
           ELSE IF m = "true" THEN [out |-> "return", game |-> <<Head(games)>>]
           ELSE rest

\* a findGame whose loop has no early return
RECURSIVE scanGames_noEarlyReturn(_, _)
scanGames_noEarlyReturn(teamName, games) ==
  IF games = <<>> THEN [out |-> "next", game |-> <<>>]
  ELSE LET m == gameMatch(teamName, Head(games))
       IN  IF m = "throw" THEN [out |-> "throw", game |-> <<>>]
           ELSE scanGames_noEarlyReturn(teamName, Tail(games))

\* the inner loop of findGame over one league's games:
\* [out |-> "return", game |-> <<g>>], [out |-> "throw"] or [out |-> "next"]
RECURSIVE scanGames(_, _)
scanGames(teamName, games) ==
  IF games = <<>> THEN [out |-> "next", game |-> <<>>]
  ELSE LET m == gameMatch(teamName, Head(games))
       IN  IF m = "throw" THEN [out |-> "throw", game |-> <<>>]
           ELSE IF m = "true" THEN [out |-> "return", game |-> <<Head(games)>>]
           ELSE scanGames(teamName, Tail(games))

\* ------------------------------------------------------------------------
\* Dates (Date, toLocaleDateString)
\* ------------------------------------------------------------------------

digitValue(c) ==
  CASE c = "0" -> 0 [] c = "1" -> 1 [] c = "2" -> 2 [] c = "3" -> 3 [] c = "4" -> 4
    [] c = "5" -> 5 [] c = "6" -> 6 [] c = "7" -> 7 [] c = "8" -> 8 [] c = "9" -> 9

digitChar(n) ==
  CASE n = 0 -> "0" [] n = 1 -> "1" [] n = 2 -> "2" [] n = 3 -> "3" [] n = 4 -> "4"
    [] n = 5 -> "5" [] n = 6 -> "6" [] n = 7 -> "7" [] n = 8 -> "8" [] n = 9 -> "9"

RECURSIVE parseDigits(_)
parseDigits(s) ==
  IF s = <<>> THEN 0
  ELSE 10 * parseDigits(SubSeq(s, 1, Len(s) - 1)) + digitValue(s[Len(s)])

\* String(n) for n >= 0
RECURSIVE numberToString(_)
numberToString(n) ==
  IF n < 10 THEN <<digitChar(n)>>
  ELSE numberToString(n \div 10) \o <<digitChar(n % 10)>>

isLeapYear(y) == (y % 4 = 0 /\ y % 100 # 0) \/ y % 400 = 0

daysInMonth(y, m) ==
  IF m = 2 THEN (IF isLeapYear(y) THEN 29 ELSE 28)
  ELSE IF m \in {4, 6, 9, 11} THEN 30 ELSE 31

\* a date-only ISO string YYYY-MM-DD naming a day of the calendar
isIsoDate(s) ==
  /\ Len(s) = 10
  /\ s[5] = "-" /\ s[8] = "-"
  /\ \A i \in {1, 2, 3, 4, 6, 7, 9, 10} : s[i] \in DigitChars
  /\ LET y == parseDigits(SubSeq(s, 1, 4))
         m == parseDigits(SubSeq(s, 6, 7))
         d == parseDigits(SubSeq(s, 9, 10))
     IN  m \in 1..12 /\ d \in 1..daysInMonth(y, m)

\* days since 1970-01-01 of a calendar day
daysFromCivil(y, m, d) ==
  LET yy  == IF m <= 2 THEN y - 1 ELSE y
      era == yy \div 400
      yoe == yy - era * 400
      mp  == IF m > 2 THEN m - 3 ELSE m + 9
      doy == (153 * mp + 2) \div 5 + d - 1
      doe == yoe * 365 + yoe \div 4 - yoe \div 100 + doy
  IN  era * 146097 + doe - 719468

\* the calendar day before <<y, m, d>>
previousDay(y, m, d) ==
  IF d > 1 THEN <<y, m, d - 1>>
  ELSE IF m > 1 THEN <<y, m - 1, daysInMonth(y, m - 1)>>
  ELSE <<y - 1, 12, 31>>

\* new Date(dateStr) reads a date-only ISO string as midnight UTC; the
\* local calendar day of that instant is the day before when the host's
\* zone is behind UTC (hostBehindUtc), the same day otherwise
localDay(dateStr, hostBehindUtc) ==
  LET y == parseDigits(SubSeq(dateStr, 1, 4))
      m == parseDigits(SubSeq(dateStr, 6, 7))
      d == parseDigits(SubSeq(dateStr, 9, 10))
  IN  IF hostBehindUtc THEN previousDay(y, m, d) ELSE <<y, m, d>>

s_Invalid_Date == <<"I","n","v","a","l","i","d"," ","D","a","t","e">>

\* toLocaleDateString("en-US", {month: "short", day: "numeric", year: "numeric"})
formatDateForDisplay(dateStr, hostBehindUtc) ==
  IF ~isIsoDate(dateStr) THEN s_Invalid_Date
  ELSE LET l == localDay(dateStr, hostBehindUtc)
       IN  SubSeq(monthLong[l[2]], 1, 3) \o <<" ">> \o numberToString(l[3])
             \o <<",", " ">> \o numberToString(l[1])

\* toLocaleDateString("en-US", {weekday: "long", year: "numeric",
\*                              month: "long", day: "numeric"})
formattedDate(dateStr, hostBehindUtc) ==
  IF ~isIsoDate(dateStr) THEN s_Invalid_Date
  ELSE LET l == localDay(dateStr, hostBehindUtc)
           w == (daysFromCivil(l[1], l[2], l[3]) + 4) % 7
       IN  weekdayLong[w + 1] \o <<",", " ">> \o monthLong[l[2]] \o <<" ">>
             \o numberToString(l[3]) \o <<",", " ">> \o numberToString(l[1])

\* const [year, month, day] = date.split("-"): a missing part is undefined
dateParts(date) ==
  LET p == split(date, "-")
  IN  [year  |-> p[1],
       month |-> IF Len(p) >= 2 THEN p[2] ELSE undefined,
       day   |-> IF Len(p) >= 3 THEN p[3] ELSE undefined]

\* ${x} in a template literal
tpl(x) == IF x = undefined THEN <<"u","n","d","e","f","i","n","e","d">> ELSE x

\* `${year}-${month}-${day}`
dashedDate(date) ==
  LET p == dateParts(date)
  IN  tpl(p.year) \o <<"-">> \o tpl(p.month) \o <<"-">> \o tpl(p.day)

\* `${year}${month}${day}`
compactDate(date) ==
  LET p == dateParts(date) IN tpl(p.year) \o tpl(p.month) \o tpl(p.day)

\* ------------------------------------------------------------------------
\* Secondary lookups (sportsApi.ts)
\* ------------------------------------------------------------------------

getNbaAbbr(espnAbbr) ==
  LET upper == toUpperCase(espnAbbr)
      hit   == lookup(NBA_TEAM_ABBR, upper)
  IN  IF hit # <<>> THEN hit[1] ELSE toLowerCase(espnAbbr)

\* abbrMatches raises a TypeError when an argument is undefined
abbrMatchesThrows(espnAbbr, nbaAbbr) ==
  espnAbbr = undefined \/ nbaAbbr = undefined

abbrMatches(espnAbbr, nbaAbbr) ==
  LET espnUpper == toUpperCase(espnAbbr)
      nbaUpper  == toUpperCase(nbaAbbr)
      mapped    == lookup(ESPN_TO_NBA_ABBR, espnUpper)
  IN  \/ espnUpper = nbaUpper
      \/ mapped # <<>> /\ mapped[1] = nbaUpper
      \/ getNbaAbbr(espnAbbr) = toLowerCase(nbaAbbr)

\* one entry of the NBA schedule or scoreboard; a tricode or gameDateUTC the
\* entry lacks is undefined
NbaEntry(gameId, homeTricode, awayTricode, gameDateUTC) ==
  [gameId |-> gameId, homeTricode |-> homeTricode,
   awayTricode |-> awayTricode, gameDateUTC |-> gameDateUTC]

\* x?.toUpperCase()
optUpper(x) == IF x = undefined THEN undefined ELSE toUpperCase(x)

\* the test of one entry against the two ESPN abbreviations, in evaluation
\* order: "throw", "true" or "false"
nbaEntryMatch(homeTeamAbbr, awayTeamAbbr, entry) ==
  LET gameHomeAbbr == optUpper(entry.homeTricode)
      gameAwayAbbr == optUpper(entry.awayTricode)
  IN  IF abbrMatchesThrows(homeTeamAbbr, gameHomeAbbr) THEN "throw"
      ELSE IF /\ ~abbrMatches(homeTeamAbbr, gameHomeAbbr)
              /\ abbrMatchesThrows(homeTeamAbbr, gameAwayAbbr) THEN "throw"
      ELSE IF abbrMatchesThrows(awayTeamAbbr, gameAwayAbbr) THEN "throw"
      ELSE IF /\ ~abbrMatches(awayTeamAbbr, gameAwayAbbr)
              /\ abbrMatchesThrows(awayTeamAbbr, gameHomeAbbr) THEN "throw"
      ELSE IF /\ (abbrMatches(homeTeamAbbr, gameHomeAbbr)
                    \/ abbrMatches(homeTeamAbbr, gameAwayAbbr))
              /\ (abbrMatches(awayTeamAbbr, gameAwayAbbr)
                    \/ abbrMatches(awayTeamAbbr, gameHomeAbbr)) THEN "true"
      ELSE "false"

nbaResult(entry) ==
  [gameId   |-> entry.gameId,
   awayAbbr |-> toLowerCase(toUpperCase(entry.awayTricode)),
   homeAbbr |-> toLowerCase(toUpperCase(entry.homeTricode))]

\* game.gameDateUTC?.substring(0, 10)
gameDateStr(entry) ==
  IF entry.gameDateUTC = undefined THEN undefined
  ELSE SubSeq(entry.gameDateUTC, 1, IF Len(entry.gameDateUTC) < 10
                                      THEN Len(entry.gameDateUTC) ELSE 10)

\* the loop over the entries of one NBA source; byDate: the schedule loop
\* tests the teams only of entries of the target date
RECURSIVE nbaScan(_, _, _, _, _)
nbaScan(entries, byDate, targetDate, homeTeamAbbr, awayTeamAbbr) ==
  IF entries = <<>> THEN [out |-> "next", found |-> <<>>, entry |-> <<>>]
  ELSE IF byDate /\ gameDateStr(Head(entries)) # targetDate
    THEN nbaScan(Tail(entries), byDate, targetDate, homeTeamAbbr, awayTeamAbbr)
  ELSE LET m == nbaEntryMatch(homeTeamAbbr, awayTeamAbbr, Head(entries))
       IN  IF m = "throw" THEN [out |-> "throw", found |-> <<>>, entry |-> <<>>]
           ELSE IF m = "true"
             THEN [out |-> "return", found |-> <<nbaResult(Head(entries))>>,
                   entry |-> <<Head(entries)>>]
           ELSE nbaScan(Tail(entries), byDate, targetDate, homeTeamAbbr, awayTeamAbbr)

\* fetchNbaGameId from its entry to the end of the schedule part, given the
\* schedule response: "return" (found is what fetchNbaGameId returns, <<>>
\* for the null of the catch, entry the schedule entry it was built from) or
\* "fallback" (go on to the scoreboard request)
nbaSchedulePart(date, homeTeamAbbr, awayTeamAbbr, resp) ==
  LET null     == [out |-> "return", found |-> <<>>, entry |-> <<>>]
      fallback == [out |-> "fallback", found |-> <<>>, entry |-> <<>>]
  IN  IF resp.net = "reject" THEN null
      ELSE IF ~resp.ok THEN fallback
      ELSE IF resp.json = "reject" THEN null
      ELSE IF resp.json = "null" \/ ~resp.hasItems THEN fallback
      ELSE LET s == nbaScan(resp.items, TRUE, dashedDate(date), homeTeamAbbr, awayTeamAbbr)
           IN  IF s.out = "throw" THEN null
               ELSE IF s.out = "return" THEN s
               ELSE fallback

\* the scoreboard part of fetchNbaGameId, given the scoreboard response:
\* found is what fetchNbaGameId returns, <<>> for null
nbaScoreboardPart(date, homeTeamAbbr, awayTeamAbbr, resp) ==
  IF resp.net = "reject" \/ ~resp.ok \/ resp.json # "object" \/ ~resp.hasItems
    THEN [out |-> "return", found |-> <<>>, entry |-> <<>>]
  ELSE LET s == nbaScan(resp.items, FALSE, dashedDate(date), homeTeamAbbr, awayTeamAbbr)
       IN  [out |-> "return", found |-> s.found, entry |-> s.entry]

\* text.replace(/^(city|...)\s+/i, ""): the first alternative, in the
\* pattern's order, that starts the name and is followed by white space
RECURSIVE dropLeadingSpace(_)
dropLeadingSpace(s) ==
  IF s # <<>> /\ IsSpace(s[1]) THEN dropLeadingSpace(Tail(s)) ELSE s

cityPrefixAt(fullName, i) ==
  /\ startsWith(toLowerCase(fullName), toLowerCase(cityPatterns[i]))
  /\ Len(fullName) > Len(cityPatterns[i])
  /\ IsSpace(fullName[Len(cityPatterns[i]) + 1])

extractMlbNickname(fullName) ==
  LET hits == { i \in DOMAIN cityPatterns : cityPrefixAt(fullName, i) }
      nickname ==
        IF hits = {} THEN fullName
        ELSE LET i == CHOOSE k \in hits : \A j \in hits : k <= j
             IN  dropLeadingSpace(SubSeq(fullName, Len(cityPatterns[i]) + 1, Len(fullName)))
  IN  trim(nickname)

\* .replace(/\s+/g, "-") and .replace(/-+/g, "-"): a run of c becomes one "-"
RECURSIVE collapseRuns(_, _)
collapseRuns(s, c) ==
  IF s = <<>> THEN <<>>
  ELSE IF s[1] = c
    THEN LET rest == collapseRuns(Tail(s), c)
         IN  IF Len(s) >= 2 /\ s[2] = c THEN rest ELSE <<"-">> \o rest
  ELSE <<s[1]>> \o collapseRuns(Tail(s), c)

IsSlugChar(c) == IsLowerAlnum(c) \/ IsSpace(c) \/ c = "-"

slugifyTeamName(teamName) ==
  trim(collapseRuns(collapseRuns(SelectSeq(toLowerCase(teamName), IsSlugChar), " "), "-"))

\* one game of dates[0].games of the MLB schedule; a team name the entry
\* lacks is "" (the code's || "")
MlbEntry(gamePk, homeName, awayName) ==
  [gamePk |-> gamePk, homeName |-> homeName, awayName |-> awayName]

\* a schedule scan that takes the first entry whatever its teams
mlbEntryMatch_anyEntry(homeTeamName, awayTeamName, entry) ==
  IF homeTeamName = undefined \/ awayTeamName = undefined THEN "throw" ELSE "true"

\* a schedule scan that takes an entry only when both teams match
mlbEntryMatch_bothTeams(homeTeamName, awayTeamName, entry) ==
  LET gameHomeNickname == extractMlbNickname(entry.homeName)
      gameAwayNickname == extractMlbNickname(entry.awayName)
      homeMatch == \/ teamMatches(homeTeamName, gameHomeNickname, <<>>, entry.homeName)
                   \/ teamMatches(homeTeamName, gameAwayNickname, <<>>, entry.awayName)
      awayMatch == \/ teamMatches(awayTeamName, gameHomeNickname, <<>>, entry.homeName)
                   \/ teamMatches(awayTeamName, gameAwayNickname, <<>>, entry.awayName)
  IN  IF homeTeamName = undefined \/ awayTeamName = undefined THEN "throw"
      ELSE IF homeMatch /\ awayMatch THEN "true"
      ELSE "false"

\* the test of one MLB entry, in evaluation order: "throw", "true", "false"
mlbEntryMatch(homeTeamName, awayTeamName, entry) ==
  LET gameHomeFull     == entry.homeName
      gameAwayFull     == entry.awayName
      gameHomeNickname == extractMlbNickname(gameHomeFull)
      gameAwayNickname == extractMlbNickname(gameAwayFull)
      homeMatch == \/ teamMatches(homeTeamName, gameHomeNickname, <<>>, gameHomeFull)
                   \/ teamMatches(homeTeamName, gameAwayNickname, <<>>, gameAwayFull)
      awayMatch == \/ teamMatches(awayTeamName, gameHomeNickname, <<>>, gameHomeFull)
                   \/ teamMatches(awayTeamName, gameAwayNickname, <<>>, gameAwayFull)
      singleTeamMatch == homeMatch \/ awayMatch
  IN  IF homeTeamName = undefined \/ awayTeamName = undefined THEN "throw"
      ELSE IF (homeMatch /\ awayMatch) \/ singleTeamMatch THEN "true"
      ELSE "false"

mlbResult(entry) ==
  [gamePk   |-> entry.gamePk,
   homeSlug |-> slugifyTeamName(extractMlbNickname(entry.homeName)),
   awaySlug |-> slugifyTeamName(extractMlbNickname(entry.awayName)),
   homeTeam |-> entry.homeName,
   awayTeam |-> entry.awayName]

RECURSIVE mlbScan(_, _, _)
mlbScan(entries, homeTeamName, awayTeamName) ==
  IF entries = <<>> THEN [found |-> <<>>, entry |-> <<>>]
  ELSE LET m == mlbEntryMatch(homeTeamName, awayTeamName, Head(entries))
       IN  IF m = "throw" THEN [found |-> <<>>, entry |-> <<>>]
           ELSE IF m = "true"
             THEN [found |-> <<mlbResult(Head(entries))>>, entry |-> <<Head(entries)>>]
           ELSE mlbScan(Tail(entries), homeTeamName, awayTeamName)

\* fetchMlbGameId given the schedule response: found is the value it resolves
\* to, <<>> for null, entry the schedule entry it was built from
fetchMlbGameId(date, homeTeamName, awayTeamName, resp) ==
  IF resp.net = "reject" \/ ~resp.ok \/ resp.json # "object" \/ ~resp.hasItems
    THEN [found |-> <<>>, entry |-> <<>>]
  ELSE mlbScan(resp.items, homeTeamName, awayTeamName)

\* ------------------------------------------------------------------------
\* URL builder (sportsApi.ts generateDirectUrls, storage.ts)
\* ------------------------------------------------------------------------

\* A URL is kept as its template and the values the code puts into it (the
\* values before encodeURIComponent): [template, league, id, a, b, date].
Url(template, league, id, a, b, date) ==
  [template |-> template, league |-> league, id |-> id, a |-> a, b |-> b, date |-> date]

\* BoxScoreLink without its description, which is display text only
BoxScoreLink(id, provider, providerType, league, url, linkType) ==
  [id |-> id, provider |-> provider, providerType |-> providerType,
   league |-> league, url |-> url, linkType |-> linkType]

DirectUrl(provider, providerType, url, league) ==
  [provider |-> provider, providerType |-> providerType, url |-> url, league |-> league]

generateDirectUrls(game) ==
  LET league == toLowerCase(game.league)
  IN  IF league = s_mls
        THEN << DirectUrl(providerNames.ESPN_Match_Stats, "third-party",
                  Url("https://www.espn.com/soccer/match/_/gameId/{id}",
                      <<>>, game.espnGameId, <<>>, <<>>, <<>>), game.league),
                DirectUrl(providerNames.ESPN_Match_Summary, "third-party",
                  Url("https://www.espn.com/soccer/match/_/gameId/{id}/statistics",
                      <<>>, game.espnGameId, <<>>, <<>>, <<>>), game.league) >>
        ELSE << DirectUrl(providerNames.ESPN_Box_Score, "third-party",
                  Url("https://www.espn.com/{league}/boxscore/_/gameId/{id}",
                      league, game.espnGameId, <<>>, <<>>, <<>>), game.league),
                DirectUrl(providerNames.ESPN_Game_Summary, "third-party",
                  Url("https://www.espn.com/{league}/game/_/gameId/{id}",
                      league, game.espnGameId, <<>>, <<>>, <<>>), game.league),
                DirectUrl(providerNames.ESPN_Play_by_Play, "third-party",
                  Url("https://www.espn.com/{league}/playbyplay/_/gameId/{id}",
                      league, game.espnGameId, <<>>, <<>>, <<>>), game.league) >>

\* `${url.provider.toLowerCase().replace(/\s+/g, "-")}-${index}`
directLinkId(provider, index) ==
  collapseRuns(toLowerCase(provider), " ") \o <<"-">> \o numberToString(index)

\* directUrls.map((url, index) => ...): index counts from 0
directLinks(game) ==
  LET directUrls == generateDirectUrls(game)
  IN  [i \in 1..Len(directUrls) |->
         BoxScoreLink(directLinkId(directUrls[i].provider, i - 1),
                      directUrls[i].provider, directUrls[i].providerType,
                      directUrls[i].league, directUrls[i].url, "direct")]

\* a || b on strings
orElse(a, b) == IF a # <<>> THEN a ELSE b

\* the NBA block of generateBoxScoreLinks; nbaGame is <<>> (null) or <<r>>
nbaLinks(links, query, game, nbaGame) ==
  LET official ==
        IF nbaGame # <<>>
          THEN BoxScoreLink(linkIds.nba_com_boxscore, providerNames.NBA_com, "official", s_NBA_upper,
                 Url("https://www.nba.com/game/{a}-vs-{b}-{id}/box-score",
                     <<>>, nbaGame[1].gameId, nbaGame[1].awayAbbr, nbaGame[1].homeAbbr, <<>>),
                 "direct")
          ELSE BoxScoreLink(linkIds.nba_com_schedule, providerNames.NBA_com, "official", s_NBA_upper,
                 Url("https://www.nba.com/games?date={date}",
                     <<>>, <<>>, <<>>, <<>>, dashedDate(query.gameDate)),
                 "search")
      bbref ==
        BoxScoreLink(linkIds.bbref_boxscore, providerNames.Basketball_Reference, "third-party", s_NBA_upper,
          Url("https://www.basketball-reference.com/boxscores/{date}0{a}.html",
              <<>>, <<>>, toUpperCase(game.homeTeamAbbr), <<>>, compactDate(query.gameDate)),
          "direct")
  IN  <<official>> \o links \o <<bbref>>

\* the MLB block of generateBoxScoreLinks; mlbGame is <<>> (null) or <<r>>
mlbLinks(links, query, game, mlbGame) ==
  LET p == dateParts(query.gameDate)
      official ==
        BoxScoreLink(linkIds.mlb_com_boxscore, providerNames.MLB_com, "official", s_MLB_upper,
          Url("https://www.mlb.com/gameday/{a}-vs-{b}/{date}/{id}/final/box",
              <<>>, mlbGame[1].gamePk, mlbGame[1].awaySlug, mlbGame[1].homeSlug,
              tpl(p.year) \o <<"/">> \o tpl(p.month) \o <<"/">> \o tpl(p.day)),
          "direct")
      bref ==
        BoxScoreLink(linkIds.bref_boxscore, providerNames.Baseball_Reference, "third-party", s_MLB_upper,
          Url("https://www.baseball-reference.com/boxes/?date={date}",
              <<>>, <<>>, <<>>, <<>>, dashedDate(query.gameDate)),
          "search")
  IN  (IF mlbGame # <<>> THEN <<official>> ELSE <<>>) \o links \o <<bref>>

\* a SofaScore link keyed by the names of the query instead of the term the
\* game was resolved with
sofascoreLink_queryNames(game, teamNameToUse_, query) ==
  BoxScoreLink(linkIds.sofascore_search, providerNames.SofaScore, "third-party", game.league,
    Url("https://www.sofascore.com/search?q={a}",
        <<>>, <<>>, orElse(query.teamName, query.playerName), <<>>, <<>>),
    "search")

\* the SofaScore link that ends the links of a resolved game
sofascoreLink(game, teamNameToUse_, query) ==
  BoxScoreLink(linkIds.sofascore_search, providerNames.SofaScore, "third-party", game.league,
    Url("https://www.sofascore.com/search?q={a}",
        <<>>, <<>>, orElse(teamNameToUse_, query.playerName), <<>>, <<>>),
    "search")

\* the display date and the search term of generateFallbackLinks
fallbackDisplayDate(query, hostBehindUtc_) ==
  formatDateForDisplay(query.gameDate, hostBehindUtc_)

fallbackSearchTerm(query) == orElse(orElse(query.teamName, query.playerName), <<>>)

\* an ESPN search link whose id leaves out the league
espnSearchLink_sameId(query, league, hostBehindUtc_) ==
  BoxScoreLink(<<"e","s","p","n","-","s","e","a","r","c","h">>,
    providerNames.ESPN_Search, "third-party", toUpperCase(league),
    Url("https://www.espn.com/search/_/q/{a}", <<>>, <<>>,
        trim(fallbackSearchTerm(query) \o <<" ">>
             \o fallbackDisplayDate(query, hostBehindUtc_) \o <<" ">>
             \o toUpperCase(league)),
        <<>>, <<>>),
    "search")

\* one ESPN search link of the leagues.forEach of generateFallbackLinks
espnSearchLink(query, league, hostBehindUtc_) ==
  BoxScoreLink(<<"e","s","p","n","-">> \o league \o <<"-","s","e","a","r","c","h">>,
    providerNames.ESPN_Search, "third-party", toUpperCase(league),
    Url("https://www.espn.com/search/_/q/{a}", <<>>, <<>>,
        trim(fallbackSearchTerm(query) \o <<" ">>
             \o fallbackDisplayDate(query, hostBehindUtc_) \o <<" ">>
             \o toUpperCase(league)),
        <<>>, <<>>),
    "search")

\* the Google link generateFallbackLinks pushes last
googleSearchLink(query, leagues_, hostBehindUtc_) ==
  LET searchQuery == trim(query.teamName \o <<" ">> \o query.playerName \o <<" ">>
                          \o fallbackDisplayDate(query, hostBehindUtc_)
                          \o <<" ","b","o","x"," ","s","c","o","r","e">>)
  IN  BoxScoreLink(linkIds.google_search, providerNames.Google_Search, "third-party",
        IF Len(leagues_) > 0 THEN toUpperCase(leagues_[1]) ELSE <<"A", "L", "L">>,
        Url("https://www.google.com/search?q={a}", <<>>, <<>>, searchQuery, <<>>, <<>>),
        "search")

\* generateFallbackLinks without the final Google link
generateFallbackLinks_noGoogle(query, leagues_, hostBehindUtc_) ==
  [i \in 1..Len(leagues_) |-> espnSearchLink(query, leagues_[i], hostBehindUtc_)]

\* generateFallbackLinks with the Google link first
generateFallbackLinks_googleFirst(query, leagues_, hostBehindUtc_) ==
  <<googleSearchLink(query, leagues_, hostBehindUtc_)>>
    \o [i \in 1..Len(leagues_) |-> espnSearchLink(query, leagues_[i], hostBehindUtc_)]

generateFallbackLinks(query, leagues_, hostBehindUtc_) ==
  [i \in 1..Len(leagues_) |-> espnSearchLink(query, leagues_[i], hostBehindUtc_)]
    \o <<googleSearchLink(query, leagues_, hostBehindUtc_)>>

\* a result that shows the query's own team name whatever was looked up
SearchResult_queryTeamName(query, links, resolvedPlayerTeam_, hostBehindUtc_) ==
  [query |-> query,
   links |-> links,
   matchInfo |->
     [playerName |-> query.playerName,
      teamName   |-> query.teamName,
      gameDate   |-> query.gameDate,
      formattedDate |-> formattedDate(query.gameDate, hostBehindUtc_),
      resolvedFromPlayer |-> resolvedPlayerTeam_ # <<>>]]

\* the SearchResult returned; resolvedFromPlayer = FALSE: the key is absent
SearchResult(query, links, resolvedPlayerTeam_, hostBehindUtc_) ==
  [query |-> query,
   links |-> links,
   matchInfo |->
     [playerName |-> query.playerName,
      teamName   |-> IF resolvedPlayerTeam_ # <<>>
                       THEN resolvedPlayerTeam_[1].teamName
                              \o <<" ","(","f","r","o","m"," ">>
                              \o resolvedPlayerTeam_[1].playerName \o <<")">>
                       ELSE query.teamName,
      gameDate   |-> query.gameDate,
      formattedDate |-> formattedDate(query.gameDate, hostBehindUtc_),
      resolvedFromPlayer |-> resolvedPlayerTeam_ # <<>>]]

\* ------------------------------------------------------------------------
\* The environment: queries and what the providers may answer
\* ------------------------------------------------------------------------

\* events a scoreboard response holds at most
MaxEvents == 2

\* entries a secondary source's response holds at most
MaxEntries == 2

\* all sequences over S of length at most n
RECURSIVE SeqUpTo(_, _)
SeqUpTo(S, n) ==
  IF n = 0 THEN { <<>> }
  ELSE LET shorter == SeqUpTo(S, n - 1)
       IN  shorter \cup { Append(s, x) : s \in { t \in shorter : Len(t) = n - 1 }, x \in S }

GoodEvent(id, homeName, homeAbbr, awayName, awayAbbr) ==
  Event(id, TRUE, TRUE,
        << Competitor("home", TRUE, homeName, homeAbbr),
           Competitor("away", TRUE, awayName, awayAbbr) >>)

\* sample events of the scoreboard payloads
events ==
  [LakersCeltics |->
     GoodEvent(sample.n_401, sample.t_Los_Angeles_Lakers, sample.t_LAL,
               sample.t_Boston_Celtics, sample.t_BOS),
   \* the away competitor listed first, ESPN's own codes for both teams
   KnicksWarriors |->
     Event(sample.n_402, TRUE, TRUE,
           << Competitor("away", TRUE, sample.t_Golden_State_Warriors, sample.t_GS),
              Competitor("home", TRUE, sample.t_New_York_Knicks, sample.t_NY) >>),
   \* team objects without displayName and abbreviation
   NoNames |->
     GoodEvent(sample.n_403, undefined, undefined, undefined, undefined),
   \* the away team object without displayName and abbreviation
   AwayNoNames |->
     GoodEvent(sample.n_404, sample.t_Los_Angeles_Lakers, sample.t_LAL,
               undefined, undefined),
   \* the home competitor without a team object
   NoTeam |->
     Event(sample.n_403, TRUE, TRUE,
           << Competitor("home", FALSE, undefined, undefined),
              Competitor("away", TRUE, sample.t_Boston_Celtics, sample.t_BOS) >>),
   NoCompetitions |->
     Event(sample.n_403, FALSE, FALSE, <<>>),
   OneCompetitor |->
     Event(sample.n_403, TRUE, TRUE,
           << Competitor("home", TRUE, sample.t_Los_Angeles_Lakers, sample.t_LAL) >>),
   NoHomeTag |->
     Event(sample.n_403, TRUE, TRUE,
           << Competitor("away", TRUE, sample.t_Los_Angeles_Lakers, sample.t_LAL),
              Competitor("away", TRUE, sample.t_Boston_Celtics, sample.t_BOS) >>),
   YankeesRedSox |->
     GoodEvent(sample.n_501, sample.t_New_York_Yankees, sample.t_NYY,
               sample.t_Boston_Red_Sox, sample.t_BOS),
   BlueJaysRangers |->
     GoodEvent(sample.n_502, sample.t_Toronto_Blue_Jays, sample.t_TOR,
               sample.t_Texas_Rangers, sample.t_TEX),
   CowboysCardinals |->
     GoodEvent(sample.n_601, sample.t_Dallas_Cowboys, sample.t_DAL,
               sample.t_Arizona_Cardinals, sample.t_ARI),
   KingsRangers |->
     GoodEvent(sample.n_701, sample.t_Los_Angeles_Kings, sample.t_LA,
               sample.t_New_York_Rangers, sample.t_NYR),
   GalaxyMiami |->
     GoodEvent(sample.n_801, sample.t_LA_Galaxy, sample.t_LA,
               sample.t_Inter_Miami_CF, sample.t_MIA)]

EventsOf(league) ==
  CASE league = s_nba -> { events.LakersCeltics, events.KnicksWarriors, events.NoNames, events.AwayNoNames,
                           events.NoTeam }
    [] league = s_mlb -> { events.YankeesRedSox, events.BlueJaysRangers }
    [] league = s_nfl -> { events.CowboysCardinals, events.OneCompetitor, events.NoCompetitions }
    [] league = s_nhl -> { events.KingsRangers, events.NoNames }
    [] league = s_mls -> { events.GalaxyMiami, events.NoHomeTag }
    [] OTHER -> {}

ScoreboardResponses ==
  [league \in ESPN_SCOREBOARD_URLS |->
     Failures \cup { Payload(evs) : evs \in SeqUpTo(EventsOf(league), MaxEvents) }]

NbaEntries ==
  { NbaEntry(sample.n_0022300567, sample.t_LAL, sample.t_BOS, sample.n_2024_01_15T00_30_00Z),
    NbaEntry(sample.n_0022300568, sample.t_LAL, sample.t_BOS, sample.n_2024_01_14T23_00_00Z),
    NbaEntry(sample.n_0022300569, sample.t_NYK, sample.t_GSW, sample.n_2024_01_15T00_30_00Z),
    NbaEntry(sample.n_0022300569, undefined, sample.t_BOS, sample.n_2024_01_15T00_30_00Z) }

NbaResponses == Failures \cup { Payload(es) : es \in SeqUpTo(NbaEntries, MaxEntries) }

MlbEntries ==
  { MlbEntry(sample.n_745804, sample.t_New_York_Yankees, sample.t_Boston_Red_Sox),
    MlbEntry(sample.n_745805, sample.t_Boston_Red_Sox, sample.t_Baltimore_Orioles),
    MlbEntry(sample.n_745806, sample.t_Toronto_Blue_Jays, sample.t_Texas_Rangers),
    MlbEntry(sample.n_745806, <<>>, <<>>) }

MlbResponses == Failures \cup { Payload(es) : es \in SeqUpTo(MlbEntries, MaxEntries) }

\* what the player lookup may answer for a player name: null (<<>>) or a team
PlayerTeams(playerName) ==
  { <<>> } \cup
  (IF playerName = sample.t_LeBron_James
     THEN { <<[playerName |-> sample.t_LeBron_James, teamName |-> sample.t_Los_Angeles_Lakers,
               league |-> s_nba]>> }
     ELSE {})

SearchQuery(playerName, teamName, gameDate) ==
  [playerName |-> playerName, teamName |-> teamName, gameDate |-> gameDate]

\* a refinement that tests the names without trimming them
atLeastOneName_noTrim(data) ==
  Len(data.playerName) > 0 \/ Len(data.teamName) > 0

\* the refinement of searchQuerySchema: one of the names is not blank
atLeastOneName(data) ==
  Len(trim(data.playerName)) > 0 \/ Len(trim(data.teamName)) > 0

\* searchQuerySchema: gameDate is not empty and one of the names is not blank
searchQuerySchema(q) ==
  /\ Len(q.gameDate) >= 1
  /\ atLeastOneName(q)

\* a request body with a string gameDate; a name is a string or is missing
Body(playerName, teamName, gameDate) ==
  [playerName |-> playerName, teamName |-> teamName, gameDate |-> gameDate]

\* z.string().optional().default(""): a missing name becomes the empty string
withDefault(v) == IF v = undefined THEN <<>> ELSE v

\* searchQuerySchema.safeParse(body): the parsed data, whether it passed, and
\* the fields of error.flatten().fieldErrors. The refinement runs on the
\* parsed data (also when gameDate is empty) and reports under teamName.
safeParse(b) ==
  LET data == SearchQuery(withDefault(b.playerName), withDefault(b.teamName), b.gameDate)
  IN  [success     |-> searchQuerySchema(data),
       data        |-> data,
       fieldErrors |-> (IF Len(b.gameDate) >= 1 THEN {} ELSE {"gameDate"})
                         \cup (IF atLeastOneName(data) THEN {} ELSE {"teamName"})]


\* request bodies: a team name alone, or a player name alone, with a blank
\* team name or with the player's own team
QueryInputs ==
  LET TeamNames == { <<>>, <<" ">>, sample.t_Lakers, sample.t_BOS, sample.t_Rangers,
                     sample.t_Inter_Miami, sample.t_Nobody }
      PlayerNames == { <<>>, sample.t_LeBron_James }
      GameDates == { sample.n_2024_01_15 }
  IN  { SearchQuery(<<>>, t, d) : t \in TeamNames, d \in GameDates }
        \cup { SearchQuery(p, t, d) :
                 p \in PlayerNames, t \in { <<>>, <<" ">>, sample.t_Lakers }, d \in GameDates }

\* the bodies POSTed to /api/search: the inputs above, and one without a date
RouteBodies ==
  { Body(q.playerName, q.teamName, q.gameDate) : q \in QueryInputs }
    \cup { Body(<<>>, sample.t_Lakers, <<>>) }

\* ------------------------------------------------------------------------
\* One call of MemStorage.generateBoxScoreLinks (storage.ts)
\* ------------------------------------------------------------------------

VARIABLES
  pc,                 \* where the call is: "idle", the await it is suspended at
                      \* ("searchPlayerTeam", "fetchGamesByDate", "nbaSchedule",
                      \* "nbaScoreboard", "mlbSchedule"), "resolved" (the promise
                      \* is fulfilled) or "rejected" (an exception escaped)
  hostBehindUtc,      \* is the host's time zone behind UTC
  query,              \* the SearchQuery of the call
  teamNameToUse,
  resolvedPlayerTeam, \* <<>> for null
  leagues,            \* detectLeague(searchTerm)
  leagueIdx,          \* position of findGame's loop in leagues
  game,               \* what findGame returned, <<>> for null
  links,              \* the links built so far
  nbaGame,            \* what fetchNbaGameId returned, <<>> for null
  mlbGame,            \* what fetchMlbGameId returned, <<>> for null
  secondaryEntry,     \* the entry of the secondary source that nbaGame or mlbGame
                      \* was built from, <<>> when there is none
  result,             \* the SearchResult the call resolved to, <<>> before
  requests,           \* the outbound requests issued so far, in order
  fetched,            \* per finished fetchGamesByDate: league and returned games
  body,               \* <<the body of the POST /api/search request>>, <<>> before
  responses,          \* the responses the route handler has sent, in order
  firstRun,           \* when a request is served a second time: <<what the
                      \* first run was given and what it did>>, else <<>>
  trace,              \* when a request is served twice: the answers the first
                      \* run got, then those the second run still has to get
  probe,              \* a single function under test: <<its arguments>>, <<>> when
                      \* a whole call is modelled
  probeOut            \* <<what the function under test did>>, <<>> before

vars ==
  <<pc, hostBehindUtc, query, teamNameToUse, resolvedPlayerTeam, leagues, leagueIdx,
    game, links, nbaGame, mlbGame, secondaryEntry, result, requests, fetched,
    body, responses, firstRun, trace, probe, probeOut>>

Request(kind, league) == [kind |-> kind, league |-> league]

NoQuery == SearchQuery(<<>>, <<>>, <<>>)

callVars ==
  <<pc, hostBehindUtc, query, teamNameToUse, resolvedPlayerTeam, leagues, leagueIdx,
    game, links, nbaGame, mlbGame, secondaryEntry, result, requests, fetched,
    body, responses>>

replayVars == <<firstRun, trace>>

\* before the request arrives
InitCall ==
  /\ pc = "idle"
  /\ hostBehindUtc \in BOOLEAN
  /\ query = NoQuery
  /\ teamNameToUse = <<>>
  /\ resolvedPlayerTeam = <<>>
  /\ leagues = <<>>
  /\ leagueIdx = 0
  /\ game = <<>>
  /\ links = <<>>
  /\ nbaGame = <<>>
  /\ mlbGame = <<>>
  /\ secondaryEntry = <<>>
  /\ result = <<>>
  /\ requests = <<>>
  /\ fetched = <<>>
  /\ body = <<>>
  /\ responses = <<>>

\* the request is served once
NoReplay ==
  /\ firstRun = <<>>
  /\ trace = <<>>

Init ==
  /\ InitCall
  /\ NoReplay
  /\ probe = <<>>
  /\ probeOut = <<>>

\* what the route handler sends: res.status(status).json(...); errors are the
\* fields of fieldErrors, json is <<the SearchResult>> of a 200
Response_(status, errors, json) == [status |-> status, errors |-> errors, json |-> json]

\* link ids numbered by a counter that lives across calls
Return_idsFromSharedCounter(q, finalLinks, rpt) ==
  LET served   == IF firstRun = <<>> THEN <<"1">> ELSE <<"2">>
      numbered == [i \in DOMAIN finalLinks |->
                     [finalLinks[i] EXCEPT !.id = @ \o <<"-">> \o served]]
  IN  /\ pc' = "resolved"
      /\ links' = finalLinks
      /\ result' = <<SearchResult(q, numbered, rpt, hostBehindUtc)>>
      /\ responses' = Append(responses,
                             Response_(200, {}, <<SearchResult(q, numbered, rpt, hostBehindUtc)>>))

\* a handler that resolves the call and sends nothing
Return_silent(q, finalLinks, rpt) ==
  /\ pc' = "resolved"
  /\ links' = finalLinks
  /\ result' = <<SearchResult(q, finalLinks, rpt, hostBehindUtc)>>
  /\ UNCHANGED responses

\* the end of generateBoxScoreLinks: the promise resolves to the result and
\* the route handler sends it with res.json
Return(q, finalLinks, rpt) ==
  /\ pc' = "resolved"
  /\ links' = finalLinks
  /\ result' = <<SearchResult(q, finalLinks, rpt, hostBehindUtc)>>
  /\ responses' = Append(responses,
                         Response_(200, {}, <<SearchResult(q, finalLinks, rpt, hostBehindUtc)>>))

\* a pipeline that calls findGame whenever there is a search term
AfterPlayerLookup_findGameForAnyTerm(q, tn, rpt, reqs) ==
  LET searchTerm == orElse(orElse(tn, q.playerName), <<>>)
      ls == detectLeague(searchTerm)
  IN  /\ teamNameToUse' = tn
      /\ resolvedPlayerTeam' = rpt
      /\ leagues' = ls
      /\ IF searchTerm # <<>>
           THEN /\ pc' = "fetchGamesByDate"
                /\ leagueIdx' = 1
                /\ requests' = IF fetchGamesByDateRequests(ls[1])
                                 THEN Append(reqs, Request("scoreboard", ls[1]))
                                 ELSE reqs
                /\ UNCHANGED <<links, result, responses>>
           ELSE /\ Return(q, generateFallbackLinks(q, ls, hostBehindUtc), rpt)
                /\ requests' = reqs
                /\ UNCHANGED leagueIdx

\* storage.ts from the detectLeague call to the first await of findGame,
\* or to the end when findGame is not called
AfterPlayerLookup(q, tn, rpt, reqs) ==
  LET searchTerm == orElse(orElse(tn, q.playerName), <<>>)
      ls == detectLeague(searchTerm)
  IN  /\ teamNameToUse' = tn
      /\ resolvedPlayerTeam' = rpt
      /\ leagues' = ls
      /\ IF tn # <<>>
           THEN /\ pc' = "fetchGamesByDate"
                /\ leagueIdx' = 1
                /\ requests' = IF fetchGamesByDateRequests(ls[1])
                                 THEN Append(reqs, Request("scoreboard", ls[1]))
                                 ELSE reqs
                /\ UNCHANGED <<links, result, responses>>
           ELSE /\ Return(q, generateFallbackLinks(q, ls, hostBehindUtc), rpt)
                /\ requests' = reqs
                /\ UNCHANGED leagueIdx

\* generateBoxScoreLinks(q) up to its first await
Call(q) ==
  /\ pc = "idle"
  /\ query' = q
  /\ IF orElse(q.teamName, <<>>) = <<>> /\ q.playerName # <<>>
       THEN /\ pc' = "searchPlayerTeam"
            /\ requests' = Append(requests, Request("player", <<>>))
            /\ teamNameToUse' = <<>>
            /\ UNCHANGED <<resolvedPlayerTeam, leagues, leagueIdx, links, result, responses>>
       ELSE AfterPlayerLookup(q, orElse(q.teamName, <<>>), <<>>, requests)
  /\ UNCHANGED <<hostBehindUtc, game, nbaGame, mlbGame, secondaryEntry, fetched,
                 probe, probeOut>>

\* routes.ts, POST /api/search up to its first await: a body that fails
\* validation is answered with 400 and the field errors; otherwise
\* generateBoxScoreLinks is called with the parsed data
Post(b) ==
  /\ pc = "idle"
  /\ body' = <<b>>
  /\ IF ~safeParse(b).success
       THEN /\ pc' = "invalid"
            /\ responses' = Append(responses, Response_(400, safeParse(b).fieldErrors, <<>>))
            /\ UNCHANGED <<hostBehindUtc, query, teamNameToUse, resolvedPlayerTeam, leagues,
                           leagueIdx, game, links, nbaGame, mlbGame, secondaryEntry,
                           result, requests, fetched, probe, probeOut>>
       ELSE Call(safeParse(b).data)

\* await searchPlayerTeam(query.playerName) returns playerTeam
PlayerLookupReturns(playerTeam) ==
  /\ pc = "searchPlayerTeam"
  /\ IF playerTeam # <<>>
       THEN AfterPlayerLookup(query, playerTeam[1].teamName, playerTeam, requests)
       ELSE AfterPlayerLookup(query, teamNameToUse, <<>>, requests)
  /\ UNCHANGED <<hostBehindUtc, query, game, nbaGame, mlbGame, secondaryEntry, fetched,
                 body, probe, probeOut>>

\* a pipeline that asks the MLB schedule about every game that is not NBA
AfterFindGame_mlbLookupForOthers(g, reqs) ==
  IF g # <<>>
    THEN IF g[1].league = s_NBA_upper
           THEN /\ pc' = "nbaSchedule"
                /\ links' = directLinks(g[1])
                /\ requests' = Append(reqs, Request("nba-schedule", <<>>))
                /\ UNCHANGED <<result, responses>>
           ELSE /\ pc' = "mlbSchedule"
                /\ links' = directLinks(g[1])
                /\ requests' = Append(reqs, Request("mlb-schedule", <<>>))
                /\ UNCHANGED <<result, responses>>
    ELSE /\ Return(query, generateFallbackLinks(query, leagues, hostBehindUtc),
                   resolvedPlayerTeam)
         /\ requests' = reqs

\* storage.ts after findGame returned g: the direct links, then the await of
\* the league's secondary lookup, or the end
AfterFindGame(g, reqs) ==
  IF g # <<>>
    THEN IF g[1].league = s_NBA_upper
           THEN /\ pc' = "nbaSchedule"
                /\ links' = directLinks(g[1])
                /\ requests' = Append(reqs, Request("nba-schedule", <<>>))
                /\ UNCHANGED <<result, responses>>
         ELSE IF g[1].league = s_MLB_upper
           THEN /\ pc' = "mlbSchedule"
                /\ links' = directLinks(g[1])
                /\ requests' = Append(reqs, Request("mlb-schedule", <<>>))
                /\ UNCHANGED <<result, responses>>
         ELSE /\ Return(query, Append(directLinks(g[1]),
                                      sofascoreLink(g[1], teamNameToUse, query)),
                        resolvedPlayerTeam)
              /\ requests' = reqs
    ELSE /\ Return(query, generateFallbackLinks(query, leagues, hostBehindUtc),
                   resolvedPlayerTeam)
         /\ requests' = reqs

\* the scoreboard request of fetchGamesByDate(leagues[leagueIdx], date)
\* returns resp; findGame scans the games and goes on to the next league,
\* returns, or raises
ScoreboardReturns(resp) ==
  /\ pc = "fetchGamesByDate"
  /\ LET league == leagues[leagueIdx]
         call   == fetchGamesByDate(league, query.gameDate, resp)
         games  == call.games
         scan   == IF call.out = "throw"
                     THEN [out |-> "throw", game |-> <<>>]
                     ELSE scanGames(teamNameToUse, games)
     IN  /\ fetched' = Append(fetched, [league |-> league, out |-> call.out, games |-> games])
         /\ IF scan.out = "throw"
              THEN /\ pc' = "rejected"
                   /\ responses' = Append(responses, Response_(500, {}, <<>>))
                   /\ UNCHANGED <<leagueIdx, game, links, result, requests>>
            ELSE IF scan.out = "return"
              THEN /\ game' = scan.game
                   /\ AfterFindGame(scan.game, requests)
                   /\ UNCHANGED leagueIdx
            ELSE IF leagueIdx < Len(leagues)
              THEN /\ leagueIdx' = leagueIdx + 1
                   /\ requests' =
                        IF fetchGamesByDateRequests(leagues[leagueIdx + 1])
                          THEN Append(requests, Request("scoreboard", leagues[leagueIdx + 1]))
                          ELSE requests
                   /\ UNCHANGED <<pc, game, links, result, responses>>
            ELSE /\ AfterFindGame(<<>>, requests)
                 /\ UNCHANGED <<leagueIdx, game>>
  /\ UNCHANGED <<hostBehindUtc, query, teamNameToUse, resolvedPlayerTeam, leagues,
                 nbaGame, mlbGame, secondaryEntry, body, probe, probeOut>>

\* storage.ts after fetchNbaGameId returned: the NBA links, the SofaScore
\* link, the result
AfterNbaLookup(looked) ==
  /\ nbaGame' = looked.found
  /\ secondaryEntry' = looked.entry
  /\ Return(query,
            Append(nbaLinks(links, query, game[1], looked.found),
                   sofascoreLink(game[1], teamNameToUse, query)),
            resolvedPlayerTeam)

\* the schedule request of fetchNbaGameId returns resp
NbaScheduleReturns(resp) ==
  /\ pc = "nbaSchedule"
  /\ LET part == nbaSchedulePart(query.gameDate, game[1].homeTeamAbbr,
                                 game[1].awayTeamAbbr, resp)
     IN  IF part.out = "fallback"
           THEN /\ pc' = "nbaScoreboard"
                /\ requests' = Append(requests, Request("nba-scoreboard", <<>>))
                /\ UNCHANGED <<links, nbaGame, secondaryEntry, result, responses>>
           ELSE /\ AfterNbaLookup(part)
                /\ UNCHANGED requests
  /\ UNCHANGED <<hostBehindUtc, query, teamNameToUse, resolvedPlayerTeam, leagues,
                 leagueIdx, game, mlbGame, fetched, body, probe, probeOut>>

\* the scoreboard request of fetchNbaGameId returns resp
NbaScoreboardReturns(resp) ==
  /\ pc = "nbaScoreboard"
  /\ AfterNbaLookup(nbaScoreboardPart(query.gameDate, game[1].homeTeamAbbr,
                                      game[1].awayTeamAbbr, resp))
  /\ UNCHANGED <<hostBehindUtc, query, teamNameToUse, resolvedPlayerTeam, leagues,
                 leagueIdx, game, mlbGame, requests, fetched, body, probe, probeOut>>

\* the schedule request of fetchMlbGameId returns resp
MlbScheduleReturns(resp) ==
  /\ pc = "mlbSchedule"
  /\ LET looked == fetchMlbGameId(query.gameDate, game[1].homeTeam, game[1].awayTeam, resp)
     IN  /\ mlbGame' = looked.found
         /\ secondaryEntry' = looked.entry
         /\ Return(query,
                   Append(mlbLinks(links, query, game[1], looked.found),
                          sofascoreLink(game[1], teamNameToUse, query)),
                   resolvedPlayerTeam)
  /\ UNCHANGED <<hostBehindUtc, query, teamNameToUse, resolvedPlayerTeam, leagues,
                 leagueIdx, game, nbaGame, requests, fetched, body, probe, probeOut>>

\* the responses the scoreboard request in flight may get
PendingScoreboardResponses ==
  IF pc = "fetchGamesByDate" THEN ScoreboardResponses[leagues[leagueIdx]] ELSE {}

\* one request is served, once
Next ==
  \/ \E b \in RouteBodies : Post(b) /\ UNCHANGED replayVars
  \/ \E playerTeam \in PlayerTeams(query.playerName) :
       PlayerLookupReturns(playerTeam) /\ UNCHANGED replayVars
  \/ \E resp \in PendingScoreboardResponses : ScoreboardReturns(resp) /\ UNCHANGED replayVars
  \/ \E resp \in NbaResponses : NbaScheduleReturns(resp) /\ UNCHANGED replayVars
  \/ \E resp \in NbaResponses : NbaScoreboardReturns(resp) /\ UNCHANGED replayVars
  \/ \E resp \in MlbResponses : MlbScheduleReturns(resp) /\ UNCHANGED replayVars

Spec == Init /\ [][Next]_vars

\* ------------------------------------------------------------------------
\* fetchGamesByDate on its own: one call with arguments and a provider
\* response drawn from the catalogue
\* ------------------------------------------------------------------------

\* the calls probed: the five leagues and a league id without a scoreboard
\* URL, a dashed and a compact date, and what the request may be answered with
FetchProbes ==
  LET ProbeLeagues == ESPN_SCOREBOARD_URLS \cup { <<"x", "f", "l">> }
      ProbeDates == { sample.n_2024_01_15, sample.n_20240115 }
      ProbeResponses(league) ==
        IF league \in ESPN_SCOREBOARD_URLS
          THEN ScoreboardResponses[league]
          ELSE Failures \cup { Payload(<<events.LakersCeltics>>) }
  IN  UNION { { [fn |-> "fetchGamesByDate", league |-> league, date |-> date, resp |-> resp] :
                  date \in ProbeDates, resp \in ProbeResponses(league) } :
              league \in ProbeLeagues }

InitFetch ==
  /\ InitCall
  /\ NoReplay
  /\ probe \in { <<p>> : p \in FetchProbes }
  /\ probeOut = <<>>

\* the call fetchGamesByDate(probe.league, probe.date) runs to its end
ApplyFetch ==
  /\ probe # <<>>
  /\ probeOut = <<>>
  /\ probe[1].fn = "fetchGamesByDate"
  /\ LET call == fetchGamesByDate(probe[1].league, probe[1].date, probe[1].resp)
     IN  probeOut' = <<[out       |-> call.out,
                        games     |-> call.games,
                        requested |-> fetchGamesByDateRequests(probe[1].league)]>>
  /\ UNCHANGED <<callVars, replayVars, probe>>

SpecFetch == InitFetch /\ [][ApplyFetch]_vars

\* ------------------------------------------------------------------------
\* Properties
\* ------------------------------------------------------------------------

Resolved == pc = "resolved"

ResultLinks == result[1].links

IsGoogleLink(l) ==
  /\ l.id = linkIds.google_search
  /\ l.provider = providerNames.Google_Search
  /\ l.linkType = "search"

\* C1: when the scoreboard returned zero games for every candidate league,
\* the result of generateBoxScoreLinks has no link of linkType "direct" and
\* has at least one Google fallback link.
C1_NoGamesOnlyFallback ==
  (Resolved /\ \A i \in DOMAIN fetched : fetched[i].games = <<>>) =>
    /\ \A i \in DOMAIN ResultLinks : ResultLinks[i].linkType # "direct"
    /\ \E i \in DOMAIN ResultLinks : IsGoogleLink(ResultLinks[i])

\* a call that asked the scoreboard for each of four candidate leagues and
\* got no game from any of them
C1_Witness ==
  /\ Resolved
  /\ Len(leagues) = 4
  /\ Len(fetched) = Len(leagues)
  /\ \A i \in DOMAIN fetched : fetched[i].games = <<>>

\* C2: generateBoxScoreLinks never fails, whatever the providers answer
\* (a competitor without team name or abbreviation included), and the links
\* of its result are never empty.
C2_NeverFails ==
  /\ pc # "rejected"
  /\ Resolved => Len(ResultLinks) > 0

\* a payload in which no event has the declared shape (every competitor
\* with a team object that has displayName and abbreviation)
EventOfDeclaredShape(event) ==
  /\ event.hasCompetitions
  /\ event.hasCompetitors
  /\ \A i \in DOMAIN event.competitors :
       /\ event.competitors[i].hasTeam
       /\ event.competitors[i].displayName # undefined
       /\ event.competitors[i].abbreviation # undefined

MalformedPayload(resp) ==
  /\ resp.net = "ok"
  /\ resp.ok
  /\ \/ resp.json # "object"
     \/ ~resp.hasItems
     \/ /\ Len(resp.items) > 0
        /\ \A i \in DOMAIN resp.items : ~EventOfDeclaredShape(resp.items[i])

\* C3: fetchGamesByDate never raises, and it returns the empty sequence on
\* a network error, on a non-2xx status and on a malformed payload.
C3_EmptyOnEveryFailure ==
  probeOut # <<>> =>
    /\ probeOut[1].out = "return"
    /\ (\/ probe[1].resp.net = "reject"
        \/ ~probe[1].resp.ok
        \/ MalformedPayload(probe[1].resp)) => probeOut[1].games = <<>>

\* findGame was called and has returned
FindGameReturned ==
  /\ pc \in {"nbaSchedule", "nbaScoreboard", "mlbSchedule", "resolved"}
  /\ teamNameToUse # <<>>

\* the (league index, game index) positions of the games findGame was given
Positions ==
  UNION { { <<i, j>> : j \in DOMAIN fetched[i].games } : i \in DOMAIN fetched }

GameAt(p) == fetched[p[1]].games[p[2]]

Before(p, q) == p[1] < q[1] \/ (p[1] = q[1] /\ p[2] < q[2])

\* the search term matches one side of the game
SideMatches(term, name, abbr) ==
  /\ name # undefined
  /\ abbr # undefined
  /\ teamMatches(term, name, abbr, name)

Matches(term, g) ==
  \/ SideMatches(term, g.homeTeam, g.homeTeamAbbr)
  \/ SideMatches(term, g.awayTeam, g.awayTeamAbbr)

MatchPositions == { p \in Positions : Matches(teamNameToUse, GameAt(p)) }

\* C4: when findGame returns, the leagues were asked in candidate order,
\* the game returned is the first matching game in (league index, game
\* index) order among the games the scoreboard gave, and it returns null
\* exactly when every candidate league was asked and no game matches.
C4_FirstMatchInOrder ==
  FindGameReturned =>
    /\ Len(fetched) <= Len(leagues)
    /\ \A i \in DOMAIN fetched : fetched[i].league = leagues[i]
    /\ IF MatchPositions = {}
         THEN game = <<>> /\ Len(fetched) = Len(leagues)
         ELSE \E p \in MatchPositions :
                /\ \A q \in MatchPositions : p = q \/ Before(p, q)
                /\ game = <<GameAt(p)>>

\* findGame returned a game from a list in which two different games match
C4_Witness ==
  /\ FindGameReturned
  /\ game # <<>>
  /\ Cardinality({ GameAt(p) : p \in MatchPositions }) >= 2

ScoreboardRequests == SelectSeq(requests, LAMBDA r : r.kind = "scoreboard")

\* the index of the first league one of whose games matches
FirstMatchingLeague ==
  CHOOSE i \in DOMAIN fetched :
    /\ \E p \in MatchPositions : p[1] = i
    /\ \A p \in MatchPositions : p[1] >= i

\* C5: the scoreboard requests are made in leagueCandidates order, at most
\* one per league; a request is in flight only while no earlier league gave
\* a match; and when findGame returns, their number is the index of the
\* first matching league, or the number of candidates when none matches.
C5_RequestsInOrderUntilMatch ==
  /\ \E k \in 0..Len(leagues) :
       ScoreboardRequests = [i \in 1..k |-> Request("scoreboard", leagues[i])]
  /\ pc = "fetchGamesByDate" =>
       /\ MatchPositions = {}
       /\ Len(ScoreboardRequests) = Len(fetched) + 1
  /\ FindGameReturned =>
       Len(ScoreboardRequests) =
         IF MatchPositions = {} THEN Len(leagues) ELSE FirstMatchingLeague

\* the first league gave no game (a failure or an empty day), the second
\* gave the match, and two more candidates were never asked
C5_Witness ==
  /\ Resolved
  /\ game # <<>>
  /\ Len(leagues) = 4
  /\ Len(fetched) = 2
  /\ fetched[1].games = <<>>
  /\ Len(ScoreboardRequests) = 2

GameResolved == Resolved /\ game # <<>>

\* C6: when a game is resolved, the first link of the result has linkType
\* "direct", for every league and whatever the secondary lookup returned.
C6_FirstLinkIsDirect ==
  GameResolved => ResultLinks[1].linkType = "direct"

\* C7: when a game is resolved, every official direct link comes before
\* every third-party direct link, and every direct link before every search
\* link.
C7_DirectBeforeSearch ==
  GameResolved =>
    \A i, j \in DOMAIN ResultLinks :
      /\ (/\ ResultLinks[i].linkType = "direct"
          /\ ResultLinks[i].providerType = "official"
          /\ ResultLinks[j].linkType = "direct"
          /\ ResultLinks[j].providerType = "third-party") => i < j
      /\ (/\ ResultLinks[i].linkType = "direct"
          /\ ResultLinks[j].linkType = "search") => i < j

DirectLinks == { ResultLinks[i] : i \in { k \in DOMAIN ResultLinks :
                                          ResultLinks[k].linkType = "direct" } }

\* the ESPN abbreviation matches one of the two codes of the NBA entry
NbaCodeMatches(abbr, entry) ==
  \/ abbrMatches(abbr, toUpperCase(entry.homeTricode))
  \/ abbrMatches(abbr, toUpperCase(entry.awayTricode))

\* the ESPN team name matches one of the two teams of the MLB entry
MlbTeamMatches(name, entry) ==
  \/ teamMatches(name, extractMlbNickname(entry.homeName), <<>>, entry.homeName)
  \/ teamMatches(name, extractMlbNickname(entry.awayName), <<>>, entry.awayName)

\* the NBA entry came from the season schedule: no scoreboard fallback request
FromNbaSchedule ==
  \A i \in DOMAIN requests : requests[i].kind # "nba-scoreboard"

IsEspnSearchLink(l, league) ==
  /\ l.provider = providerNames.ESPN_Search
  /\ l.linkType = "search"
  /\ l.league = toUpperCase(league)
  /\ includes(l.url.a, toUpperCase(league))

\* C9: when no game is resolved, the links are one ESPN search link per
\* candidate league, in candidate order, then exactly one Google search
\* link, last: n + 1 links for n candidate leagues.
C9_FallbackShape ==
  (Resolved /\ game = <<>>) =>
    /\ Len(ResultLinks) = Len(leagues) + 1
    /\ \A i \in 1..Len(leagues) :
         /\ IsEspnSearchLink(ResultLinks[i], leagues[i])
         /\ ~IsGoogleLink(ResultLinks[i])
    /\ IsGoogleLink(ResultLinks[Len(ResultLinks)])

\* a team name that narrows the candidates to two leagues, neither of which
\* had the game
C9_Witness ==
  /\ Resolved
  /\ game = <<>>
  /\ Len(leagues) = 2
  /\ Len(fetched) = 2

OfficialLinks == { i \in DOMAIN ResultLinks : ResultLinks[i].providerType = "official" }

\* C10: when an NBA or MLB game is resolved, the result has exactly one
\* official link, direct when the secondary lookup succeeded and a
\* browse-by-date search link when it failed, and it has the Reference link
\* of the league.
C10_OneOfficialLink ==
  (GameResolved /\ game[1].league \in {s_NBA_upper, s_MLB_upper}) =>
    /\ Cardinality(OfficialLinks) = 1
    /\ \A i \in OfficialLinks :
         ResultLinks[i].linkType =
           IF nbaGame # <<>> \/ mlbGame # <<>> THEN "direct" ELSE "search"
    /\ \E i \in DOMAIN ResultLinks :
         ResultLinks[i].provider =
           IF game[1].league = s_NBA_upper
             THEN providerNames.Basketball_Reference ELSE providerNames.Baseball_Reference

SofaScoreLinks == { i \in DOMAIN ResultLinks : ResultLinks[i].provider = providerNames.SofaScore }

\* C11: when a game is resolved, the result has exactly one SofaScore link,
\* a search link, in last position, whose league is the resolved game's
\* league and whose query is the term the game was resolved with; for an
\* NBA game the result also has an ESPN box-score direct link embedding the
\* scoreboard game id, an NBA.com link and a Basketball Reference link.
C11_SofaScoreLastAndNbaLinks ==
  GameResolved =>
    /\ SofaScoreLinks = { Len(ResultLinks) }
    /\ LET l == ResultLinks[Len(ResultLinks)]
       IN  /\ l.linkType = "search"
           /\ l.league = game[1].league
           /\ l.url.a = teamNameToUse
    /\ game[1].league = s_NBA_upper =>
         /\ \E i \in DOMAIN ResultLinks :
              /\ ResultLinks[i].provider = providerNames.ESPN_Box_Score
              /\ ResultLinks[i].linkType = "direct"
              /\ ResultLinks[i].url.id = game[1].espnGameId
         /\ \E i \in DOMAIN ResultLinks : ResultLinks[i].provider = providerNames.NBA_com
         /\ \E i \in DOMAIN ResultLinks :
              ResultLinks[i].provider = providerNames.Basketball_Reference

\* an NBA game resolved with the team the player lookup gave
C11_Witness ==
  /\ GameResolved
  /\ game[1].league = s_NBA_upper
  /\ resolvedPlayerTeam # <<>>
  /\ query.teamName = <<>>

\* C12: within one SearchResult the link ids are pairwise distinct, for a
\* resolved game and for the fallback set.
C12_LinkIdsDistinct ==
  Resolved =>
    \A i, j \in DOMAIN ResultLinks : i # j => ResultLinks[i].id # ResultLinks[j].id

\* a resolved MLB game with the official link, three ESPN links, the
\* reference link and the SofaScore link
C12_Witness ==
  /\ GameResolved
  /\ mlbGame # <<>>
  /\ Len(ResultLinks) = 6

\* ------------------------------------------------------------------------
\* detectLeague on its own: one call with a search term drawn from the
\* sample names, their upper-case forms and pairs of them
\* ------------------------------------------------------------------------

DetectTerms ==
  LET DetectWords ==
        { <<>>, <<" ">>, sample.t_Lakers, sample.t_Rangers, sample.t_Inter_Miami, sample.t_Nobody,
          sample.t_BOS, sample.t_LeBron_James, sample.t_Los_Angeles_Lakers,
          sample.t_Arizona_Cardinals, sample.t_Jets, sample.t_Planets, sample.t_New_York,
          sample.t_LA_Galaxy }
  IN  DetectWords
        \cup { toUpperCase(w) : w \in DetectWords }
        \cup { w1 \o <<" ">> \o w2 : w1, w2 \in DetectWords }

InitDetect ==
  /\ InitCall
  /\ NoReplay
  /\ probe \in { <<[fn |-> "detectLeague", teamName |-> term]>> : term \in DetectTerms }
  /\ probeOut = <<>>

\* detectLeague(probe.teamName) is called, and called once more
ApplyDetect ==
  /\ probe # <<>>
  /\ probeOut = <<>>
  /\ probe[1].fn = "detectLeague"
  /\ probeOut' = <<[leagues |-> detectLeague(probe[1].teamName),
                    again   |-> detectLeague(probe[1].teamName)]>>
  /\ UNCHANGED <<callVars, replayVars, probe>>

SpecDetect == InitDetect /\ [][ApplyDetect]_vars

\* the static team-name substrings of a league
LeagueTeams(league) ==
  CASE league = s_nba -> nbaTeams
    [] league = s_mlb -> mlbTeams
    [] league = s_nfl -> nflTeams
    [] league = s_nhl -> nhlTeams
    [] league = s_mls -> mlsTeams

\* t occurs in s as a contiguous substring
OccursIn(t, s) ==
  \E i \in 1..(Len(s) - Len(t) + 1) : SubSeq(s, i, i + Len(t) - 1) = t

Qualifying(term) ==
  { league \in ESPN_SCOREBOARD_URLS :
      \E t \in LeagueTeams(league) : OccursIn(t, toLowerCase(term)) }

FixedLeagueOrder == <<s_nba, s_mlb, s_nfl, s_nhl, s_mls>>

LeaguePosition(league) == CHOOSE i \in DOMAIN FixedLeagueOrder : FixedLeagueOrder[i] = league

\* C13: detectLeague includes a league iff one of the league's team
\* substrings occurs in the lower-cased term; when no league qualifies it
\* returns exactly <<nba, mlb, nfl, nhl>>; the result is never empty, has no
\* duplicate, follows the order nba, mlb, nfl, nhl, mls, and is the same when
\* the call is repeated.
C13_DetectLeague ==
  (probeOut # <<>> /\ probe[1].fn = "detectLeague") =>
    LET r == probeOut[1].leagues
        Q == Qualifying(probe[1].teamName)
    IN  /\ Q # {} => { r[i] : i \in DOMAIN r } = Q
        /\ Q = {} => r = <<s_nba, s_mlb, s_nfl, s_nhl>>
        /\ Len(r) > 0
        /\ \A i \in DOMAIN r : r[i] \in ESPN_SCOREBOARD_URLS
        /\ \A i, j \in DOMAIN r : i < j => LeaguePosition(r[i]) < LeaguePosition(r[j])
        /\ probeOut[1].again = r

\* an upper-case term in which a team of MLB and NHL occurs
C13_Witness ==
  /\ probeOut # <<>>
  /\ probe[1].fn = "detectLeague"
  /\ probe[1].teamName = toUpperCase(sample.t_Rangers)
  /\ probeOut[1].leagues = <<s_mlb, s_nhl>>


\* ------------------------------------------------------------------------
\* searchQuerySchema.safeParse on its own
\* ------------------------------------------------------------------------

\* bodies whose names are missing, empty, blank, padded or plain
ParseBodies ==
  LET names == { undefined, <<>>, <<" ">>, <<" ", " ">>, sample.t_Lakers,
                 <<" ">> \o sample.t_Lakers \o <<" ">>, sample.t_LeBron_James }
      dates == { <<>>, <<" ">>, sample.n_2024_01_15 }
  IN  { Body(p, t, d) : p \in names, t \in names, d \in dates }

InitParse ==
  /\ InitCall
  /\ NoReplay
  /\ probe \in { <<[fn |-> "safeParse", body |-> b]>> : b \in ParseBodies }
  /\ probeOut = <<>>

\* searchQuerySchema.safeParse(probe.body) is called
ApplyParse ==
  /\ probe # <<>>
  /\ probeOut = <<>>
  /\ probe[1].fn = "safeParse"
  /\ probeOut' = <<safeParse(probe[1].body)>>
  /\ UNCHANGED <<callVars, replayVars, probe>>

SpecParse == InitParse /\ [][ApplyParse]_vars

\* a name of a body that is there and has a character that is not white space
NonBlank(v) == v # undefined /\ \E i \in DOMAIN v : ~IsSpace(v[i])

Parsed == probe # <<>> /\ probeOut # <<>> /\ probe[1].fn = "safeParse"

\* C14: validation accepts a body exactly when its gameDate is not empty and
\* at least one of playerName and teamName is not blank (a missing name counts
\* as the empty string, and the accepted data carries it as such, the names
\* otherwise untouched); a body whose names are both blank is rejected with a
\* validation error under the field teamName.
C14_ValidationAcceptsIff ==
  Parsed =>
    LET b == probe[1].body
        r == probeOut[1]
    IN  /\ r.success <=> (b.gameDate # <<>> /\ (NonBlank(b.playerName) \/ NonBlank(b.teamName)))
        /\ r.success <=> r.fieldErrors = {}
        /\ r.data.playerName = (IF b.playerName = undefined THEN <<>> ELSE b.playerName)
        /\ r.data.teamName = (IF b.teamName = undefined THEN <<>> ELSE b.teamName)
        /\ r.data.gameDate = b.gameDate
        /\ (~NonBlank(b.playerName) /\ ~NonBlank(b.teamName))
             => (~r.success /\ "teamName" \in r.fieldErrors)

\* a body with a date, no playerName and a teamName of two spaces was rejected
\* with the error under teamName alone
C14_Witness ==
  /\ Parsed
  /\ probe[1].body = Body(undefined, <<" ", " ">>, sample.n_2024_01_15)
  /\ ~probeOut[1].success
  /\ probeOut[1].fieldErrors = {"teamName"}


\* ------------------------------------------------------------------------
\* The route POST /api/search
\* ------------------------------------------------------------------------

\* the handler has finished with the request
Answered == pc \in {"invalid", "resolved", "rejected"}

\* the body passes validation, said of the body itself
BodyValid(b) == b.gameDate # <<>> /\ (NonBlank(b.playerName) \/ NonBlank(b.teamName))

\* C15: POST /api/search sends exactly one response per request: never more
\* than one, and one once the handler has finished; 400 with field errors when
\* the body fails validation, and then generateBoxScoreLinks is never invoked
\* (no query, no outbound request, no result); 500 when the pipeline raises;
\* otherwise 200 with the SearchResult of the pipeline.
C15_OneResponsePerRequest ==
  /\ Len(responses) <= 1
  /\ Answered <=> Len(responses) = 1
  /\ (body # <<>> /\ ~BodyValid(body[1]))
       => /\ pc = "invalid"
          /\ responses[1].status = 400
          /\ responses[1].errors # {}
          /\ query = NoQuery /\ requests = <<>> /\ result = <<>>
  /\ (body # <<>> /\ BodyValid(body[1])) => pc # "invalid"
  /\ pc = "rejected" => responses[1].status = 500 /\ responses[1].json = <<>>
  /\ pc = "resolved" => /\ responses[1].status = 200
                        /\ result # <<>>
                        /\ responses[1].json = result

\* the pipeline raised on a valid body and the one response is a 500
C15_Witness ==
  /\ body # <<>>
  /\ BodyValid(body[1])
  /\ pc = "rejected"
  /\ requests # <<>>
  /\ responses = <<Response_(500, {}, <<>>)>>


\* ------------------------------------------------------------------------
\* The player lookup
\* ------------------------------------------------------------------------

\* the player lookup was made
PlayerLookupMade == \E i \in DOMAIN requests : requests[i].kind = "player"

\* the team name in use was derived from the answer of the player lookup
TeamDerived ==
  /\ PlayerLookupMade
  /\ teamNameToUse # query.teamName

\* C16: in a returned result matchInfo.resolvedFromPlayer is true exactly when
\* the team name was derived from the player lookup and not supplied in the
\* query; then matchInfo.teamName is the derived team name followed by
\* " (from <the player name of the lookup's answer>)"; otherwise
\* resolvedFromPlayer is absent and matchInfo.teamName is query.teamName.
C16_ResolvedFromPlayer ==
  Resolved =>
    LET mi == result[1].matchInfo
    IN  /\ mi.resolvedFromPlayer <=> TeamDerived
        /\ TeamDerived
             => /\ resolvedPlayerTeam # <<>>
                /\ teamNameToUse = resolvedPlayerTeam[1].teamName
                /\ mi.teamName = teamNameToUse \o <<" ", "(", "f", "r", "o", "m", " ">>
                                   \o resolvedPlayerTeam[1].playerName \o <<")">>
        /\ ~TeamDerived => mi.teamName = query.teamName

\* a query with only LeBron James was resolved through the player lookup
C16_Witness ==
  /\ Resolved
  /\ query.teamName = <<>>
  /\ query.playerName = sample.t_LeBron_James
  /\ result[1].matchInfo.resolvedFromPlayer
  /\ result[1].matchInfo.teamName
       = sample.t_Los_Angeles_Lakers \o <<" ", "(", "f", "r", "o", "m", " ">>
           \o sample.t_LeBron_James \o <<")">>


\* generateBoxScoreLinks has been called
Invoked == pc \notin {"idle", "invalid"}

\* C17: once generateBoxScoreLinks runs, the player lookup has been made when
\* the query's teamName is blank after trimming (empty or white space only)
\* and its playerName is not blank, and it is never made when the query's
\* teamName is not blank.
C17_PlayerLookupWhenOnlyPlayer ==
  Invoked =>
    /\ (~NonBlank(query.teamName) /\ NonBlank(query.playerName)) => PlayerLookupMade
    /\ NonBlank(query.teamName) => ~PlayerLookupMade


\* ------------------------------------------------------------------------
\* The same request served twice with the same answers from outside
\* ------------------------------------------------------------------------

\* the bodies that may arrive: in the first run a team name, a team name of
\* two leagues, a player alone or a body that fails validation; in the second
\* run the body of the first
BodiesNow ==
  IF firstRun = <<>>
    THEN { Body(<<>>, sample.t_Lakers, sample.n_2024_01_15),
           Body(<<>>, sample.t_Rangers, sample.n_2024_01_15),
           Body(sample.t_LeBron_James, <<>>, sample.n_2024_01_15),
           Body(<<>>, <<>>, sample.n_2024_01_15) }
    ELSE { firstRun[1].body }

\* what the await the call is suspended at may be answered with: in the first
\* run a failure or a payload of at most one item; in the second run what the
\* first run was answered at this point
AnswersNow ==
  LET upToOne(S) == Failures \cup { Payload(<<>>) } \cup { Payload(<<x>>) : x \in S }
  IN  IF firstRun # <<>>
        THEN (IF trace # <<>> THEN { Head(trace) } ELSE {})
        ELSE CASE pc = "searchPlayerTeam" -> PlayerTeams(query.playerName)
               [] pc = "fetchGamesByDate" -> upToOne(EventsOf(leagues[leagueIdx]))
               [] pc \in {"nbaSchedule", "nbaScoreboard"} -> upToOne(NbaEntries)
               [] pc = "mlbSchedule" -> upToOne(MlbEntries)
               [] OTHER -> {}

\* the await the call is suspended at returns the answer
Answer(answer) ==
  \/ PlayerLookupReturns(answer)
  \/ ScoreboardReturns(answer)
  \/ NbaScheduleReturns(answer)
  \/ NbaScoreboardReturns(answer)
  \/ MlbScheduleReturns(answer)

\* the request arrives
PostTwice(b) ==
  /\ Post(b)
  /\ UNCHANGED replayVars

\* an await returns; the first run keeps the answer for the second, the second
\* run uses the answers up in the order the first got them
AnswerTwice(answer) ==
  /\ Answer(answer)
  /\ trace' = IF firstRun = <<>> THEN Append(trace, answer) ELSE Tail(trace)
  /\ UNCHANGED firstRun

\* the first run is over: what it was given and what it did is kept, and the
\* server is as it was before the request (it keeps no state between requests)
Restart ==
  /\ firstRun = <<>>
  /\ Answered
  /\ firstRun' = <<[body |-> body[1], outcome |-> pc, result |-> result,
                    responses |-> responses, requests |-> requests, answers |-> trace]>>
  /\ pc' = "idle"
  /\ query' = NoQuery
  /\ teamNameToUse' = <<>>
  /\ resolvedPlayerTeam' = <<>>
  /\ leagues' = <<>>
  /\ leagueIdx' = 0
  /\ game' = <<>>
  /\ links' = <<>>
  /\ nbaGame' = <<>>
  /\ mlbGame' = <<>>
  /\ secondaryEntry' = <<>>
  /\ result' = <<>>
  /\ requests' = <<>>
  /\ fetched' = <<>>
  /\ body' = <<>>
  /\ responses' = <<>>
  /\ UNCHANGED <<hostBehindUtc, trace, probe, probeOut>>

SpecTwice ==
  Init /\ [][\/ \E b \in BodiesNow : PostTwice(b)
             \/ \E answer \in AnswersNow : AnswerTwice(answer)
             \/ Restart]_vars

\* the second run is over
SecondRunOver == firstRun # <<>> /\ Answered

NbaLookupKinds == {"nba-schedule", "nba-scoreboard"}

MlbLookupKinds == {"mlb-schedule"}

\* the positions in requests of the requests of a secondary lookup
SecondaryRequests ==
  { i \in DOMAIN requests : requests[i].kind \in NbaLookupKinds \cup MlbLookupKinds }

\* C19: a request of a secondary lookup is issued only after a game has been
\* resolved from the primary scoreboard (the game is one of those the last
\* scoreboard answer gave, and every scoreboard request came before), and it
\* is the lookup of the game's league: NBA requests for an NBA game, the MLB
\* request for an MLB game; there is none while no game is resolved and none
\* when the game's league is NFL, NHL or MLS.
C19_SecondaryOnlyForResolvedLeague ==
  /\ \A i \in SecondaryRequests :
       /\ game # <<>>
       /\ fetched # <<>>
       /\ \E k \in DOMAIN fetched[Len(fetched)].games :
            fetched[Len(fetched)].games[k] = game[1]
       /\ \A j \in DOMAIN requests : requests[j].kind = "scoreboard" => j < i
       /\ requests[i].kind \in NbaLookupKinds => game[1].league = s_NBA_upper
       /\ requests[i].kind \in MlbLookupKinds => game[1].league = s_MLB_upper
  /\ game = <<>> => SecondaryRequests = {}
  /\ (game # <<>> /\ game[1].league \notin {s_NBA_upper, s_MLB_upper})
       => SecondaryRequests = {}

\* an MLB game was found in the second league asked and the one secondary
\* request made, after both scoreboard requests, was the MLB schedule
C19_Witness ==
  /\ Resolved
  /\ game # <<>>
  /\ game[1].league = s_MLB_upper
  /\ Len(requests) = 3
  /\ requests[1] = Request("scoreboard", s_nba)
  /\ requests[2] = Request("scoreboard", s_mlb)
  /\ requests[3].kind = "mlb-schedule"


\* the secondary lookup of the resolved game's league returned none
LookupReturnedNone ==
  /\ GameResolved
  /\ game[1].league \in {s_NBA_upper, s_MLB_upper}
  /\ nbaGame = <<>>
  /\ mlbGame = <<>>

\* C20: the secondary lookups never raise: once one has been requested the
\* call is waiting for it or has returned a result, whatever the answer was
\* (network error, error status, unreadable body, entries with missing
\* fields); and when the lookup returned none the result still has every
\* direct link built from the resolved game, and a date-only (search)
\* official link in place of the official direct link.
C20_LookupFailureDegrades ==
  /\ SecondaryRequests # {} => pc \in {"nbaSchedule", "nbaScoreboard", "mlbSchedule", "resolved"}
  /\ LookupReturnedNone =>
       /\ \A k \in DOMAIN directLinks(game[1]) :
            \E i \in DOMAIN ResultLinks : ResultLinks[i] = directLinks(game[1])[k]
       /\ \A i \in OfficialLinks : ResultLinks[i].linkType # "direct"
       /\ \E i \in OfficialLinks : ResultLinks[i].linkType = "search"


\* the player lookup was made and answered with no team
PlayerLookupFoundNothing ==
  /\ PlayerLookupMade
  /\ pc # "searchPlayerTeam"
  /\ resolvedPlayerTeam = <<>>

\* C29: when only a player name is given and the player lookup yields no
\* team, the call returns at once: the player request is the only outbound
\* request (no scoreboard request, no secondary request), the candidate
\* leagues are those of the player name, no game is resolved, the links are
\* the fallback links of those leagues, all of type search, and
\* resolvedFromPlayer is absent.
C29_NoTeamNoLookups ==
  PlayerLookupFoundNothing =>
    /\ Resolved
    /\ query.teamName = <<>>
    /\ requests = <<Request("player", <<>>)>>
    /\ fetched = <<>>
    /\ game = <<>>
    /\ leagues = detectLeague(query.playerName)
    /\ Len(ResultLinks) = Len(leagues) + 1
    /\ \A i \in DOMAIN ResultLinks :
         /\ ResultLinks[i].linkType = "search"
         /\ i <= Len(leagues) => IsEspnSearchLink(ResultLinks[i], leagues[i])
         /\ i = Len(leagues) + 1 => IsGoogleLink(ResultLinks[i])
    /\ ~result[1].matchInfo.resolvedFromPlayer
    /\ result[1].matchInfo.teamName = <<>>

\* the lookup for LeBron James found no team and the call returned the
\* fallback links of the four default leagues
C29_Witness ==
  /\ PlayerLookupFoundNothing
  /\ Resolved
  /\ query.playerName = sample.t_LeBron_James
  /\ Len(ResultLinks) = 5
  /\ ResultLinks[5].linkType = "search"


\* the requests fetchNbaGameId has issued, in order
NbaLookupRequests == SelectSeq(requests, LAMBDA r : r.kind \in NbaLookupKinds)

\* C28: fetchNbaGameId asks its two sources in a fixed order and at most
\* once each, the schedule first and the date's scoreboard second; and it
\* returns none only after both were asked: whenever the schedule gave no
\* match, for whatever reason, the scoreboard was asked too.
C28_NbaSourcesInOrder ==
  /\ NbaLookupRequests \in { <<>>,
                             <<Request("nba-schedule", <<>>)>>,
                             <<Request("nba-schedule", <<>>), Request("nba-scoreboard", <<>>)>> }
  /\ (GameResolved /\ game[1].league = s_NBA_upper /\ nbaGame = <<>>)
       => Len(NbaLookupRequests) = 2


\* ------------------------------------------------------------------------
\* fetchMlbGameId on its own
\* ------------------------------------------------------------------------

\* the calls probed: the two teams of a resolved MLB game, in either role,
\* and what the schedule request may be answered with
MlbProbes ==
  LET pairs == { <<sample.t_New_York_Yankees, sample.t_Boston_Red_Sox>>,
                 <<sample.t_Boston_Red_Sox, sample.t_New_York_Yankees>>,
                 <<sample.t_Toronto_Blue_Jays, sample.t_Texas_Rangers>> }
  IN  { [fn |-> "fetchMlbGameId", date |-> sample.n_2024_01_15,
         homeTeamName |-> p[1], awayTeamName |-> p[2], resp |-> resp] :
          p \in pairs, resp \in MlbResponses }

InitMlb ==
  /\ InitCall
  /\ NoReplay
  /\ probe \in { <<p>> : p \in MlbProbes }
  /\ probeOut = <<>>

\* fetchMlbGameId(probe.date, probe.homeTeamName, probe.awayTeamName) runs to
\* its end
ApplyMlb ==
  /\ probe # <<>>
  /\ probeOut = <<>>
  /\ probe[1].fn = "fetchMlbGameId"
  /\ probeOut' = <<fetchMlbGameId(probe[1].date, probe[1].homeTeamName,
                                  probe[1].awayTeamName, probe[1].resp)>>
  /\ UNCHANGED <<callVars, replayVars, probe>>

SpecMlb == InitMlb /\ [][ApplyMlb]_vars

\* the supplied team name matches one side of the listed game
NameMatchesEntry(name, entry) ==
  \/ teamMatches(name, extractMlbNickname(entry.homeName), <<>>, entry.homeName)
  \/ teamMatches(name, extractMlbNickname(entry.awayName), <<>>, entry.awayName)

\* the games the schedule response lists
ListedGames(resp) ==
  IF resp.net = "ok" /\ resp.ok /\ resp.json = "object" /\ resp.hasItems
    THEN resp.items ELSE <<>>

\* the positions of the listed games one of whose sides one of the two
\* supplied names matches
SingleTeamHits ==
  { i \in DOMAIN ListedGames(probe[1].resp) :
      \/ NameMatchesEntry(probe[1].homeTeamName, ListedGames(probe[1].resp)[i])
      \/ NameMatchesEntry(probe[1].awayTeamName, ListedGames(probe[1].resp)[i]) }

MlbLookedUp == probe # <<>> /\ probeOut # <<>> /\ probe[1].fn = "fetchMlbGameId"

GenericDirectLinks ==
  { i \in DOMAIN ResultLinks :
      ResultLinks[i].provider \in
        { providerNames.ESPN_Box_Score, providerNames.ESPN_Game_Summary,
          providerNames.ESPN_Play_by_Play, providerNames.ESPN_Match_Stats,
          providerNames.ESPN_Match_Summary } }

\* C25: for a resolved game of any league the result has the three generic
\* third-party direct links (box score, game summary, play-by-play), each
\* embedding the game's external id; the soccer league differs from the
\* others in the shape of the URL path only, not in the number of links.
C25_ThreeGenericDirectLinks ==
  GameResolved =>
    /\ Cardinality(GenericDirectLinks) = 3
    /\ \A i \in GenericDirectLinks :
         /\ ResultLinks[i].linkType = "direct"
         /\ ResultLinks[i].providerType = "third-party"
         /\ ResultLinks[i].url.id = game[1].espnGameId
         /\ ResultLinks[i].league = game[1].league


\* "<weekday>, <month> <day>, <year>" of the calendar day an ISO date names
LongFormOfIsoDate(iso) ==
  LET y == parseDigits(SubSeq(iso, 1, 4))
      m == parseDigits(SubSeq(iso, 6, 7))
      d == parseDigits(SubSeq(iso, 9, 10))
  IN  weekdayLong[((daysFromCivil(y, m, d) + 4) % 7) + 1] \o <<",", " ">> \o monthLong[m]
        \o <<" ">> \o numberToString(d) \o <<",", " ">> \o numberToString(y)

\* C26: matchInfo.formattedDate of a returned result names the calendar day
\* of the query's ISO gameDate, as long weekday, long month, day, year
\* ("2024-01-15" gives "Monday, January 15, 2024"), whatever the time-zone
\* offset of the host, negative offsets included.
C26_FormattedDateSameDay ==
  (Resolved /\ isIsoDate(query.gameDate)) =>
    /\ result[1].matchInfo.formattedDate = LongFormOfIsoDate(query.gameDate)
    /\ query.gameDate = sample.n_2024_01_15 =>
         result[1].matchInfo.formattedDate
           = <<"M","o","n","d","a","y",","," ","J","a","n","u","a","r","y"," ",
               "1","5",","," ","2","0","2","4">>


\* ------------------------------------------------------------------------
\* fetchGamesByDate, event by event
\* ------------------------------------------------------------------------

\* fetchGamesByDate was called and has ended
Fetched == probe # <<>> /\ probeOut # <<>> /\ probe[1].fn = "fetchGamesByDate"

\* the request was made and answered with a list of events
EventsListed ==
  /\ probe[1].league \in ESPN_SCOREBOARD_URLS
  /\ probe[1].resp.net = "ok"
  /\ probe[1].resp.ok
  /\ probe[1].resp.json = "object"
  /\ probe[1].resp.hasItems

\* an event with complete data: a competition, two competitors or more, one
\* tagged home and one tagged away, both with team data
CompleteEvent(event) ==
  /\ event.hasCompetitions
  /\ event.hasCompetitors
  /\ Len(event.competitors) >= 2
  /\ \E i \in DOMAIN event.competitors :
       event.competitors[i].homeAway = "home"
  /\ \E i \in DOMAIN event.competitors :
       event.competitors[i].homeAway = "away"
  /\ \A i \in DOMAIN event.competitors :
       event.competitors[i].homeAway \in {"home", "away"} => event.competitors[i].hasTeam

\* C24: an event of the response that lacks complete data is skipped on its
\* own: the games returned are those of the complete events of the response,
\* all of them, in the provider's order.
C24_IncompleteEventsSkipped ==
  (Fetched /\ EventsListed) =>
    LET complete == SelectSeq(probe[1].resp.items, CompleteEvent)
    IN  /\ Len(probeOut[1].games) = Len(complete)
        /\ \A i \in DOMAIN complete : probeOut[1].games[i].espnGameId = complete[i].id


\* the upper-case code of a league id
UpperCode(league) ==
  CASE league = s_nba -> <<"N", "B", "A">>
    [] league = s_mlb -> <<"M", "L", "B">>
    [] league = s_nfl -> <<"N", "F", "L">>
    [] league = s_nhl -> <<"N", "H", "L">>
    [] league = s_mls -> <<"M", "L", "S">>
    [] OTHER -> <<>>

\* the game is built from an event of the response: its id, and the names
\* and abbreviations of a competitor tagged home and of one tagged away
BuiltFromEvent(g, event) ==
  /\ g.espnGameId = event.id
  /\ \E h, a \in DOMAIN event.competitors :
       /\ event.competitors[h].homeAway = "home"
       /\ event.competitors[a].homeAway = "away"
       /\ g.homeTeam = event.competitors[h].displayName
       /\ g.homeTeamAbbr = event.competitors[h].abbreviation
       /\ g.awayTeam = event.competitors[a].displayName
       /\ g.awayTeamAbbr = event.competitors[a].abbreviation

\* C30: every GameInfo that fetchGamesByDate(league, date) returns has the
\* upper-cased requested league as league, the requested date as gameDate,
\* the id of an event of the response as external game id, and the home and
\* away team of that event's competitors tagged home and away; for a league
\* id without a configured scoreboard endpoint the function returns the empty
\* sequence and issues no request.
C30_GameInfoFields ==
  Fetched =>
    /\ \A k \in DOMAIN probeOut[1].games :
         /\ probeOut[1].games[k].league = UpperCode(probe[1].league)
         /\ probeOut[1].games[k].gameDate = probe[1].date
         /\ \E i \in DOMAIN probe[1].resp.items :
              BuiltFromEvent(probeOut[1].games[k], probe[1].resp.items[i])
    /\ probe[1].league \notin ESPN_SCOREBOARD_URLS
         => /\ probeOut[1].games = <<>>
            /\ ~probeOut[1].requested
    /\ probe[1].league \in ESPN_SCOREBOARD_URLS => probeOut[1].requested

\* two NBA games were returned, the first the Lakers-Celtics event
C30_Witness ==
  /\ Fetched
  /\ probe[1].league = s_nba
  /\ Len(probeOut[1].games) = 2
  /\ probeOut[1].games[1].league = <<"N", "B", "A">>
  /\ probeOut[1].games[1].homeTeam = sample.t_Los_Angeles_Lakers
  /\ probeOut[1].games[1].espnGameId = events.LakersCeltics.id


\* ------------------------------------------------------------------------
\* teamMatches on its own
\* ------------------------------------------------------------------------

\* the calls probed: search terms of one to six characters and longer ones,
\* against candidates with long, short and empty names
InitTeam ==
  /\ InitCall
  /\ NoReplay
  /\ probeOut = <<>>
  /\ probe \in
       LET terms == { <<"L", "A">>, <<"L", "A", "L">>, <<"L", "a", "s">>, <<"A", "s">>,
                      <<"L", "a", "k", "e">>, sample.t_Lakers, sample.t_BOS,
                      sample.t_Los_Angeles_Lakers }
           candidates ==
             { <<sample.t_Los_Angeles_Lakers, sample.t_LAL>>,
               <<sample.t_Boston_Celtics, sample.t_BOS>>,
               <<<<"L", "A">>, <<>>>>,
               <<<<"A", "'", "s">>, <<"O", "A", "K">>>>,
               <<<<>>, <<>>>>,
               <<<<"-">>, <<"L", "A", "L">>>> }
       IN  { <<[fn |-> "teamMatches", searchTeam |-> s, teamName |-> c[1], teamAbbr |-> c[2],
              displayName |-> c[1]]>> : s \in terms, c \in candidates }

\* teamMatches(probe.searchTeam, probe.teamName, probe.teamAbbr,
\* probe.displayName) is called
ApplyTeam ==
  /\ probe # <<>>
  /\ probeOut = <<>>
  /\ probe[1].fn = "teamMatches"
  /\ probeOut' = <<teamMatches(probe[1].searchTeam, probe[1].teamName, probe[1].teamAbbr,
                               probe[1].displayName)>>
  /\ UNCHANGED <<callVars, replayVars, probe>>

SpecTeam == InitTeam /\ [][ApplyTeam]_vars

TeamMatched == probe # <<>> /\ probeOut # <<>> /\ probe[1].fn = "teamMatches"

\* the normalized search term equals the candidate's normalized abbreviation,
\* nickname or full name
ExactMatch ==
  LET search == normalizeTeamName(probe[1].searchTeam)
  IN  \/ search = normalizeTeamName(probe[1].teamAbbr)
      \/ search = getTeamNickname(probe[1].displayName)
      \/ search = normalizeTeamName(probe[1].displayName)
      \/ search = normalizeTeamName(probe[1].teamName)

\* C23: a search term whose normalized form has fewer than 4 characters
\* matches a candidate only by exact equality with the candidate's normalized
\* abbreviation, nickname or full name, never through a substring rule, for
\* every candidate, those with very short or empty names included.
C23_ShortTermsMatchExactlyOnly ==
  (TeamMatched /\ Len(normalizeTeamName(probe[1].searchTeam)) < 4 /\ probeOut[1])
    => ExactMatch


\* ------------------------------------------------------------------------
\* findGame, sequential and as a parallel fan-out
\* ------------------------------------------------------------------------

\* a findGame that goes through every league and keeps the match of the last
RECURSIVE findGame_lastLeague(_, _, _, _)
findGame_lastLeague(teamName, date, leagues_, resps) ==
  IF leagues_ = <<>> THEN [out |-> "return", game |-> <<>>]
  ELSE LET games == fetchGamesByDate(Head(leagues_), date, Head(resps)).games
           scan  == scanGames(teamName, games)
           rest  == findGame_lastLeague(teamName, date, Tail(leagues_), Tail(resps))
       IN  IF scan.out = "throw" THEN scan
           ELSE IF rest.out = "throw" \/ rest.game # <<>> THEN rest
           ELSE IF scan.out = "return" THEN scan
           ELSE rest

\* findGame(teamName, date, leagues) when the scoreboard request of the i-th
\* league gets the response resps[i]: the leagues are fetched and scanned one
\* after the other, the first matching game ends the call
RECURSIVE findGame(_, _, _, _)
findGame(teamName, date, leagues_, resps) ==
  IF leagues_ = <<>> THEN [out |-> "return", game |-> <<>>]
  ELSE LET games == fetchGamesByDate(Head(leagues_), date, Head(resps)).games
           scan  == scanGames(teamName, games)
       IN  IF scan.out = "next"
             THEN findGame(teamName, date, Tail(leagues_), Tail(resps))
             ELSE scan

\* a selection that takes the match of the league that answered first
RECURSIVE selectGame_firstCompleted(_, _, _, _)
selectGame_firstCompleted(teamName, n, games, completed) ==
  IF completed = <<>>
    THEN [out |-> IF n = 0 THEN "return" ELSE "wait", game |-> <<>>]
  ELSE LET scan == scanGames(teamName, games[Head(completed)])
       IN  IF scan.out = "next"
             THEN selectGame_firstCompleted(teamName, n - 1, games, Tail(completed))
             ELSE scan

\* the selection of the fan-out over n leagues: the lists of games are
\* scanned in the order of the leagues, whatever the order in which they
\* arrived; "wait" when a list that is needed has not arrived yet
selectGame(teamName, n, games, completed) ==
  LET RECURSIVE walk(_)
      walk(i) ==
        IF i > n THEN [out |-> "return", game |-> <<>>]
        ELSE IF \A k \in DOMAIN completed : completed[k] # i
          THEN [out |-> "wait", game |-> <<>>]
        ELSE LET scan == scanGames(teamName, games[i])
             IN  IF scan.out = "next" THEN walk(i + 1) ELSE scan
  IN  walk(1)


\* every scoreboard request of the fan-out is under way, none has answered;
\* the calls probed: a team name, the leagues in the order of the candidates
\* and one scoreboard response per league
InitFan ==
  /\ InitCall
  /\ NoReplay
  /\ hostBehindUtc = FALSE
  /\ probe \in
       LET answers(league) ==
             { Response("ok", FALSE, "object", FALSE, <<>>) }
               \cup { Payload(<<e>>) : e \in EventsOf(league) }
           lists == { <<s_mlb, s_nhl>>, <<s_nhl, s_mlb, s_nba>> }
           responsesFor(ls) ==
             { r \in [DOMAIN ls -> UNION { answers(l) : l \in ESPN_SCOREBOARD_URLS }] :
                 \A i \in DOMAIN ls : r[i] \in answers(ls[i]) }
       IN  UNION { { <<[fn |-> "findGame", teamName |-> tn, date |-> sample.n_2024_01_15,
                      leagues |-> ls, resps |-> r]>> :
                       tn \in { sample.t_Rangers, sample.t_Lakers }, r \in responsesFor(ls) } :
                   ls \in lists }
  /\ probeOut = <<[completed |-> <<>>,
                   games     |-> [i \in DOMAIN probe[1].leagues |-> <<>>],
                   selected  |-> <<>>]>>

\* the scoreboard request of the i-th league answers
FetchCompletes(i) ==
  /\ probe # <<>>
  /\ probe[1].fn = "findGame"
  /\ i \in DOMAIN probe[1].leagues
  /\ \A k \in DOMAIN probeOut[1].completed : probeOut[1].completed[k] # i
  /\ probeOut' =
       <<[probeOut[1] EXCEPT
            !.completed = Append(@, i),
            !.games[i]  = fetchGamesByDate(probe[1].leagues[i], probe[1].date,
                                           probe[1].resps[i]).games]>>
  /\ UNCHANGED <<callVars, replayVars, probe>>

\* the fan-out settles on its result as soon as the lists it needs are there
Select ==
  /\ probe # <<>>
  /\ probe[1].fn = "findGame"
  /\ probeOut[1].selected = <<>>
  /\ LET choice == selectGame(probe[1].teamName, Len(probe[1].leagues),
                              probeOut[1].games, probeOut[1].completed)
     IN  /\ choice.out # "wait"
         /\ probeOut' = <<[probeOut[1] EXCEPT !.selected = <<choice>>]>>
  /\ UNCHANGED <<callVars, replayVars, probe>>

SpecFan ==
  InitFan /\ [][(\E i \in 1..3 : FetchCompletes(i)) \/ Select]_vars

FanSelected ==
  /\ probe # <<>>
  /\ probe[1].fn = "findGame"
  /\ probeOut[1].selected # <<>>

SequentialFindGame ==
  findGame(probe[1].teamName, probe[1].date, probe[1].leagues, probe[1].resps)

\* C21: for the same per-league responses the parallel fan-out, which takes
\* the match of the earliest league in the order of the candidates, ends as
\* the sequential findGame with its early return does: the same game, or none
\* in both, whatever the order in which the fetches complete.
C21_FanOutAsSequential ==
  FanSelected => probeOut[1].selected[1] = SequentialFindGame

\* the second league answered first, both leagues hold a matching game, and
\* the game of the first league was selected
C21_Witness ==
  /\ FanSelected
  /\ probeOut[1].completed[1] = 2
  /\ scanGames(probe[1].teamName, probeOut[1].games[2]).out = "return"
  /\ probeOut[1].selected[1].out = "return"
  /\ probeOut[1].selected[1].game # <<>>
  /\ probeOut[1].selected[1].game[1].league = toUpperCase(probe[1].leagues[1])


\* ------------------------------------------------------------------------
\* Two calls in flight
\* ------------------------------------------------------------------------
\* The first call is served alone and recorded as in the replay above. Then
\* it is served again with the answers it got, while a second call is in
\* flight: the variables of the call hold the call the event loop is running,
\* probe holds the other one, suspended at an await (or not yet arrived, or
\* answered), and probeOut names the running call: <<>> the first call,
\* <<"second">> the second.

\* the locals of the running call
RunningCall ==
  [pc |-> pc, query |-> query, teamNameToUse |-> teamNameToUse,
   resolvedPlayerTeam |-> resolvedPlayerTeam, leagues |-> leagues, leagueIdx |-> leagueIdx,
   game |-> game, links |-> links, nbaGame |-> nbaGame, mlbGame |-> mlbGame,
   secondaryEntry |-> secondaryEntry, result |-> result, requests |-> requests,
   fetched |-> fetched, body |-> body, responses |-> responses]

\* the locals of the other call; before it arrived they are those of a call
\* that has not started
OtherCall ==
  LET IdleCall ==
        [pc |-> "idle", query |-> NoQuery, teamNameToUse |-> <<>>,
         resolvedPlayerTeam |-> <<>>, leagues |-> <<>>, leagueIdx |-> 0, game |-> <<>>,
         links |-> <<>>, nbaGame |-> <<>>, mlbGame |-> <<>>, secondaryEntry |-> <<>>,
         result |-> <<>>, requests |-> <<>>, fetched |-> <<>>, body |-> <<>>,
         responses |-> <<>>]
  IN  IF probe = <<>> THEN IdleCall ELSE probe[1]

\* the event loop turns to the other call; each call finds its own locals
SwitchTo(other) ==
  /\ firstRun # <<>>
  /\ probe' = <<RunningCall>>
  /\ probeOut' = IF probeOut = <<>> THEN <<"second">> ELSE <<>>
  /\ pc' = other.pc
  /\ query' = other.query
  /\ teamNameToUse' = other.teamNameToUse
  /\ resolvedPlayerTeam' = other.resolvedPlayerTeam
  /\ leagues' = other.leagues
  /\ leagueIdx' = other.leagueIdx
  /\ game' = other.game
  /\ links' = other.links
  /\ nbaGame' = other.nbaGame
  /\ mlbGame' = other.mlbGame
  /\ secondaryEntry' = other.secondaryEntry
  /\ result' = other.result
  /\ requests' = other.requests
  /\ fetched' = other.fetched
  /\ body' = other.body
  /\ responses' = other.responses
  /\ UNCHANGED <<hostBehindUtc, firstRun, trace>>

\* a teamNameToUse that is one variable for all calls
Switch_sharedTeamName ==
  SwitchTo([OtherCall EXCEPT !.teamNameToUse = teamNameToUse])

Switch == SwitchTo(OtherCall)

\* a request arrives: the first call alone, the first call again, or the
\* second call
PostPair ==
  \E b \in IF firstRun = <<>>
             THEN { Body(<<>>, sample.t_Lakers, sample.n_2024_01_15),
                    Body(sample.t_LeBron_James, <<>>, sample.n_2024_01_15) }
           ELSE IF probeOut = <<>>
             THEN { firstRun[1].body }
           ELSE { Body(<<>>, sample.t_Inter_Miami, sample.n_2024_01_15),
                  Body(<<>>, <<>>, sample.n_2024_01_15) } :
    /\ Post(b)
    /\ UNCHANGED replayVars

\* an await of the running call returns: the first call, served again, gets
\* the answers it got alone, in their order; otherwise the answer is a failure
\* or a payload of one item
AnswerPair ==
  LET one(S) == { Response("ok", FALSE, "object", FALSE, <<>>) }
                  \cup { Payload(<<x>>) : x \in S }
  IN  \E answer \in
            IF firstRun # <<>> /\ probeOut = <<>>
              THEN (IF trace # <<>> THEN { Head(trace) } ELSE {})
            ELSE CASE pc = "searchPlayerTeam" -> PlayerTeams(query.playerName)
                   [] pc = "fetchGamesByDate" -> one(EventsOf(leagues[leagueIdx]))
                   [] pc \in {"nbaSchedule", "nbaScoreboard"} -> one(NbaEntries)
                   [] pc = "mlbSchedule" -> one(MlbEntries)
                   [] OTHER -> {} :
        /\ Answer(answer)
        /\ trace' = IF firstRun = <<>> THEN Append(trace, answer)
                    ELSE IF probeOut = <<>> THEN Tail(trace)
                    ELSE trace
        /\ UNCHANGED firstRun

SpecPair == Init /\ [][PostPair \/ AnswerPair \/ Restart \/ Switch]_vars

\* the first call while it is served again, running or suspended
FirstCall == IF probeOut = <<>> THEN RunningCall ELSE OtherCall

\* the second call
SecondCall == IF probeOut = <<>> THEN OtherCall ELSE RunningCall

CallAnswered(call) == call.pc \in {"invalid", "resolved", "rejected"}

=============================================================================
